---- MODULE Spec2Model ----
(***************************************************************************)
(* Model of the LEGO arm motion-control engine (lego_arm_master.py) and of *)
(* the callers that share one ArmController: the queue worker, synchronous *)
(* HTTP handlers and the gamepad thread.  Degrees are integers; the 1e-6   *)
(* float guard of move() is "delta = 0".                                   *)
(***************************************************************************)
EXTENDS Integers, Sequences, FiniteSets, TLC

(* ---------------------------------------------------------------- bounds *)
\* Top-level calls the environment starts in one behaviour.
MaxCalls == 2
\* Top-level calls in one behaviour of the concurrent specification.
MaxConcCalls == 3
\* Driver deviations (a command travelled inexactly, a position read that is
\* unavailable) in one behaviour.
MaxFaults == 2
\* The number of poses of the process step list that the model runs.
MaxSteps == 3
\* Top-level calls in one behaviour of the calibration specification.
MaxCalCalls == 4
\* Operations submitted to the queue in one behaviour.
MaxOps == 3
\* Synchronous move calls in one behaviour of the queue specification.
MaxSyncCalls == 1

(* ------------------------------------------------------------- constants *)
Joints == {"A", "B", "C", "D"}
MaxChunk == 12000
DefaultDeadband == 2
DefaultRotation == 360
NoCtx == "none"

Abs(x) == IF x < 0 THEN -x ELSE x
Sign(x) == IF x > 0 THEN 1 ELSE IF x < 0 THEN -1 ELSE 0
Max2(a, b) == IF a > b THEN a ELSE b
Min2(a, b) == IF a < b THEN a ELSE b

VARIABLES
    current_abs,        \* ArmController.current_abs
    pos,                \* Motor._pos of every joint (the hardware)
    last_dir,           \* ArmController._last_dir
    backlash,           \* ArmController.backlash
    rotation_deg,       \* ArmController.rotation_deg
    limits,             \* ArmController.limits: <<>> (None) or <<lo, hi>>
    points,             \* ArmController.points: joint -> (name -> degrees)
    calibrated,         \* ArmController.calibrated
    lock,               \* holder of ArmController.lock (threading.Lock)
    busy_owner,         \* ArmController._busy_owner
    busy_count,         \* ArmController._busy_count
    stop_event,         \* ArmController.stop_event
    move_lock,          \* holder of _precision_workflow._MOVE_LOCK
    last_move_summary,  \* ArmController._last_move_summary
    pc,                 \* where each execution context is
    stack,              \* suspended callers of each context, innermost last
    mv,                 \* locals of the move call of each context
    ret,                \* outcome of the call that last returned, per context
    calls,              \* top-level calls started so far
    prev_dir,           \* direction of the last open-loop command per joint
    faults,             \* driver deviations so far
    ops,                \* the operations submitted, in submission order
    op_queue,           \* op_queue: indices of the operations not yet taken
    wk_op               \* the operation the worker has taken (0: none)

vars == <<current_abs, pos, last_dir, backlash, rotation_deg, limits, points,
          calibrated, lock, busy_owner, busy_count, stop_event, move_lock,
          last_move_summary, pc, stack, mv, ret, calls, prev_dir, faults,
          ops, op_queue, wk_op>>

ctrlVars == <<current_abs, pos, last_dir, backlash, rotation_deg, limits,
              points, calibrated>>

queueVars == <<ops, op_queue, wk_op>>

(* ------------------------------------------------------------- requests *)
Num(v) == [kind |-> "num", name |-> "", off |-> 0, val |-> v]
\* A point expression "name", "name+off" or "name-off" (off carries the sign).
Pt(n, o) == [kind |-> "pt", name |-> n, off |-> o, val |-> 0]
Item(j, r) == [j |-> j, raw |-> r]

Req(mode, units, items, finalize, deadband, timeout) ==
    [mode |-> mode, units |-> units, items |-> items, finalize |-> finalize,
     deadband |-> deadband, timeout |-> timeout]

\* move(mode, joints, speed=60, units="degrees", timeout_s=None,
\*      finalize=True, finalize_deadband_deg=2.0)
DefaultReq(mode, items) ==
    Req(mode, "degrees", items, TRUE, DefaultDeadband, FALSE)

NoReq == Req("", "", <<>>, FALSE, 0, FALSE)

EmptyMv ==
    [req |-> NoReq, targets |-> <<>>, start |-> <<>>, idx |-> 0, rem |-> 0,
     chunk |-> 0, dir |-> 0, sent |-> <<>>, run |-> <<>>, base_dir |-> <<>>,
     pstart |-> <<>>,
     fpos |-> <<>>, ferr |-> <<>>, corr |-> <<>>, ncorr |-> <<>>,
     corr_slip |-> 0,
     outcome |-> "", stopped |-> FALSE, reads_ok |-> TRUE,
     contended |-> FALSE, during_wf |-> FALSE, stale |-> FALSE]

NoSummary ==
    [new_abs |-> [j \in Joints |-> 0], items |-> <<>>, converted |-> <<>>,
     final_error |-> <<>>, corrections |-> <<>>, finalized |-> FALSE,
     timeout |-> FALSE]

(* ------------------------------------------------------ pure functions *)
\* resolve_point: strip, lower-case, spaces to underscores.
Normalize(name) ==
    CASE name = "Open" -> "open"
      [] name = " closed " -> "closed"
      [] OTHER -> name

\* ArmController.clamp
\* A variant that lets every value through.
NoClamp(lim, value) == value
Clamp(lim, value) ==
    IF lim = <<>> THEN value ELSE Max2(lim[1], Min2(lim[2], value))

\* The joint is known and a point expression names a recorded point.
ItemOk(it) ==
    /\ it.j \in Joints
    /\ it.raw.kind = "pt" => Normalize(it.raw.name) \in DOMAIN points[it.j]

\* resolve_point for a point expression, the unit conversion for a number.
\* A variant that applies the rotation unit to values given in degrees too.
RawTargetScaled(req, it) ==
    IF it.raw.kind = "pt"
    THEN points[it.j][Normalize(it.raw.name)] + it.raw.off
    ELSE LET value_deg == it.raw.val * rotation_deg[it.j]
         IN IF req.mode = "relative" THEN current_abs[it.j] + value_deg
            ELSE value_deg
RawTarget(req, it) ==
    IF it.raw.kind = "pt"
    THEN points[it.j][Normalize(it.raw.name)] + it.raw.off
    ELSE LET value_deg == IF req.units = "rotations"
                          THEN it.raw.val * rotation_deg[it.j]
                          ELSE it.raw.val
         IN IF req.mode = "relative" THEN current_abs[it.j] + value_deg
            ELSE value_deg

\* A variant in which the backlash offset is folded into the stored target.
ItemTargetShifted(req, it) ==
    LET raw == RawTarget(req, it)
        d == Sign(raw - current_abs[it.j])
    IN Clamp(limits[it.j],
             IF d /= 0 /\ d /= last_dir[it.j] THEN raw + backlash[it.j] * d
             ELSE raw)
ItemTarget(req, it) == Clamp(limits[it.j], RawTarget(req, it))

ValidMode(m) == m \in {"relative", "absolute"}
ValidUnits(u) == u \in {"rotations", "degrees"}

\* Whether the open-loop command of a move in direction d gets the backlash
\* offset (lego_arm_master.py line 405).
\* A variant that adds the offset to every move, reversal or not.
AlwaysBacklash(d, last) == d /= 0
NeedsBacklash(d, last) == d /= 0 /\ d /= last

\* run_delta of the open-loop phase.
RunDelta(delta, last, bl) ==
    LET d == IF delta > 0 THEN 1 ELSE -1
    IN IF NeedsBacklash(d, last) THEN delta + bl * d ELSE delta

\* The next chunk of a remaining open-loop command.
NextChunk(rem) ==
    IF Abs(rem) > MaxChunk THEN (IF rem > 0 THEN MaxChunk ELSE -MaxChunk)
    ELSE rem

\* Index of the first request item at or after i whose delta is not zero.
RECURSIVE FirstMoving(_, _, _)
FirstMoving(targets, start, i) ==
    IF i > Len(targets) THEN i
    ELSE IF targets[i] - start[i] /= 0 THEN i
    ELSE FirstMoving(targets, start, i + 1)

\* Whether finalize issues a corrective command for this error.
\* A variant of finalize that never issues the corrective command.
NeverCorrection(finalize, error, deadband) == FALSE
\* A variant of finalize that corrects whatever the measured error is.
AlwaysCorrection(finalize, error, deadband) == finalize
NeedsCorrection(finalize, error, deadband) ==
    finalize /\ Abs(error) > deadband


(* ---------------------------------------------------------------- driver *)
\* What run_for_degrees may travel beyond the commanded degrees (the fake
\* Motor travels exactly; a real one undershoots, or is stopped by stop()).
Slips == {-3, -1, 0}

\* The deviations the driver may still show, fb being their bound.
SlipChoices(fb) == IF faults < fb THEN Slips ELSE {0}
\* get_degrees() answers (TRUE) or raises, and read_position returns None.
ReadChoices(fb) == IF faults < fb THEN BOOLEAN ELSE {TRUE}
Fault(s, r) == (IF s /= 0 THEN 1 ELSE 0) + (IF r THEN 0 ELSE 1)

(* ------------------------------------------------------------ busy-lock *)
\* _acquire_busy: the test made under ArmController.lock.
\* A variant of the test that ignores the current owner.
AcquireAlways(t) == TRUE
AcquireOk(t) == busy_owner \in {NoCtx, t}

\* A variant of the release that does not count down.
ReleasedCountKept(t) == busy_count
\* _release_busy: owner and depth after a release by context t.
ReleasedCount(t) ==
    IF busy_owner = t THEN (IF busy_count - 1 <= 0 THEN 0 ELSE busy_count - 1)
    ELSE busy_count

\* A variant in which any release by the owner frees the lock.
ReleasedOwnerEager(t) == IF busy_owner = t THEN NoCtx ELSE busy_owner
ReleasedOwner(t) ==
    IF busy_owner = t /\ busy_count - 1 <= 0 THEN NoCtx ELSE busy_owner

\* ArmController.lock can be taken by a "with self.lock" statement.
LockFree == lock = NoCtx

\* A routine of context t returns or raises: control goes to its caller.
ReturnTo(t, outcome) ==
    /\ pc' = [pc EXCEPT ![t] = IF stack[t] = <<>> THEN "idle" ELSE "resume"]
    /\ ret' = [ret EXCEPT ![t] = outcome]

MovePcs == {"mv_acquire", "mv_enter", "mv_open", "mv_cmd", "mv_final",
            "mv_corr", "mv_release"}
\* Between "with self.lock" of move and its end: the actuation section.
ActuationPcs == {"mv_open", "mv_cmd", "mv_final", "mv_corr"}
\* The move call holds the busy-lock.
InFlightPcs == ActuationPcs \cup {"mv_enter", "mv_release"}

\* Context u is inside run_workflow and has issued a move already.
WorkflowMoving(u) ==
    /\ stack[u] /= <<>>
    /\ stack[u][1].op = "workflow"
    /\ stack[u][1].arg.moved

(* ------------------------------------------------------------------ move *)
\* move() entered with request req: lines 313-318, then on to _acquire_busy.
BeginMove(t, req) ==
    IF ValidMode(req.mode) /\ ValidUnits(req.units)
    THEN /\ pc' = [pc EXCEPT ![t] = "mv_acquire"]
         /\ mv' = [mv EXCEPT ![t] =
                [EmptyMv EXCEPT !.req = req,
                    !.contended = \E u \in DOMAIN pc :
                        u /= t /\ pc[u] \in InFlightPcs,
                    !.during_wf = \E u \in DOMAIN pc :
                        u /= t /\ WorkflowMoving(u),
                    !.stale = stop_event]]
         /\ ret' = [ret EXCEPT ![t] = ""]
    ELSE /\ ReturnTo(t, "ValueError")
         /\ mv' = [mv EXCEPT ![t] = EmptyMv]

\* The locals of the open-loop loop on reaching request item k.
EnterJoint(m, k) ==
    LET j == m.req.items[k].j
        delta == m.targets[k] - m.start[k]
        rd == RunDelta(delta, last_dir[j], backlash[j])
    IN [m EXCEPT !.idx = k, !.dir = IF delta > 0 THEN 1 ELSE -1,
                 !.rem = rd, !.run[k] = rd, !.base_dir[k] = prev_dir[j]]

\* move() lines 332-333: if not self._acquire_busy(): raise RuntimeError("BUSY")
MoveAcquire(t) ==
    /\ pc[t] = "mv_acquire"
    /\ LockFree
    /\ IF AcquireOk(t)
       THEN /\ busy_owner' = t
            /\ busy_count' = busy_count + 1
            /\ pc' = [pc EXCEPT ![t] = "mv_enter"]
            /\ UNCHANGED <<mv, ret>>
       ELSE /\ ReturnTo(t, "BUSY")
            /\ mv' = [mv EXCEPT ![t] = EmptyMv]
            /\ UNCHANGED <<busy_owner, busy_count>>
    /\ UNCHANGED <<ctrlVars, lock, stop_event, move_lock, last_move_summary,
                   stack, calls, prev_dir, faults>>
    /\ UNCHANGED queueVars

\* move() lines 339-397 and, when no joint has to move, line 442.
MoveEnter(t) ==
    /\ pc[t] = "mv_enter"
    /\ LockFree
    /\ LET m == mv[t]
           n == Len(m.req.items)
           tg == [i \in 1..n |-> ItemTarget(m.req, m.req.items[i])]
           st == [i \in 1..n |-> current_abs[m.req.items[i].j]]
           ps == [i \in 1..n |-> pos[m.req.items[i].j]]
           zero == [i \in 1..n |-> 0]
           no == [i \in 1..n |-> FALSE]
           m1 == [m EXCEPT !.targets = tg, !.start = st, !.pstart = ps,
                           !.sent = no,
                           !.run = zero, !.base_dir = zero, !.fpos = zero,
                           !.ferr = zero, !.corr = zero, !.ncorr = zero]
           k == FirstMoving(tg, st, 1)
       IN IF stop_event
          THEN /\ stop_event' = FALSE
               /\ mv' = [mv EXCEPT ![t].outcome = "Interrupted"]
               /\ pc' = [pc EXCEPT ![t] = "mv_release"]
               /\ UNCHANGED lock
          ELSE IF \E i \in 1..n : ~ItemOk(m.req.items[i])
          THEN /\ mv' = [mv EXCEPT ![t].outcome = "ValueError"]
               /\ pc' = [pc EXCEPT ![t] = "mv_release"]
               /\ UNCHANGED <<lock, stop_event>>
          ELSE IF k > n
          THEN /\ mv' = [mv EXCEPT ![t] = [m1 EXCEPT !.idx = 1,
                                !.outcome = IF n = 0 THEN "ok" ELSE ""]]
               /\ pc' = [pc EXCEPT ![t] = IF n = 0 THEN "mv_release"
                                         ELSE "mv_final"]
               /\ lock' = IF n = 0 THEN NoCtx ELSE t
               /\ stop_event' = FALSE
          ELSE /\ mv' = [mv EXCEPT ![t] = EnterJoint(m1, k)]
               /\ pc' = [pc EXCEPT ![t] = "mv_open"]
               /\ lock' = t
               /\ UNCHANGED stop_event
    /\ UNCHANGED <<ctrlVars, busy_owner, busy_count, move_lock,
                   last_move_summary, stack, ret, calls, prev_dir, faults>>
    /\ UNCHANGED queueVars

\* move() lines 416-439: the checks made before a chunk, then run_for_degrees.
MoveOpenIssue(t) ==
    /\ pc[t] = "mv_open"
    /\ LET m == mv[t]
           j == m.req.items[m.idx].j
       IN \E late \in (IF m.req.timeout THEN BOOLEAN ELSE {FALSE}) :
          IF stop_event
          THEN /\ stop_event' = FALSE
               /\ mv' = [mv EXCEPT ![t].outcome = "Interrupted"]
               /\ pc' = [pc EXCEPT ![t] = "mv_release"]
               /\ lock' = NoCtx
               /\ UNCHANGED <<last_dir, prev_dir>>
          ELSE IF late
          THEN /\ last_dir' = [last_dir EXCEPT ![j] = m.dir]
               /\ stop_event' = FALSE
               /\ mv' = [mv EXCEPT ![t].outcome = "Timeout"]
               /\ pc' = [pc EXCEPT ![t] = "mv_release"]
               /\ lock' = NoCtx
               /\ UNCHANGED prev_dir
          ELSE /\ mv' = [mv EXCEPT ![t].chunk = NextChunk(m.rem),
                                   ![t].sent[m.idx] = TRUE]
               /\ prev_dir' = [prev_dir EXCEPT ![j] = m.dir]
               /\ pc' = [pc EXCEPT ![t] = "mv_cmd"]
               /\ UNCHANGED <<last_dir, stop_event, lock>>
    /\ UNCHANGED <<current_abs, pos, backlash, rotation_deg, limits, points,
                   calibrated, busy_owner, busy_count, move_lock,
                   last_move_summary, stack, ret, calls, faults>>
    /\ UNCHANGED queueVars

\* The blocking run_for_degrees(chunk) returns (line 439); after the last
\* chunk of a joint line 440, and after the last joint line 442.
MoveOpenDone(t, fb) ==
    /\ pc[t] = "mv_cmd"
    /\ LET m == mv[t]
           n == Len(m.req.items)
           j == m.req.items[m.idx].j
           last == Abs(m.rem) <= MaxChunk
           k == FirstMoving(m.targets, m.start, m.idx + 1)
       IN /\ \E s \in SlipChoices(fb) :
                /\ pos' = [pos EXCEPT ![j] = pos[j] + m.chunk + s]
                /\ faults' = faults + Fault(s, TRUE)
          /\ IF ~last
             THEN /\ mv' = [mv EXCEPT ![t].rem = m.rem - m.chunk]
                  /\ pc' = [pc EXCEPT ![t] = "mv_open"]
                  /\ UNCHANGED <<last_dir, stop_event>>
             ELSE /\ last_dir' = [last_dir EXCEPT ![j] = m.dir]
                  /\ IF k > n
                     THEN /\ stop_event' = FALSE
                          /\ mv' = [mv EXCEPT ![t].idx = 1, ![t].rem = 0]
                          /\ pc' = [pc EXCEPT ![t] = "mv_final"]
                     ELSE /\ mv' = [mv EXCEPT ![t] = EnterJoint(m, k)]
                          /\ pc' = [pc EXCEPT ![t] = "mv_open"]
                          /\ UNCHANGED stop_event
    /\ UNCHANGED <<current_abs, backlash, rotation_deg, limits, points,
                   calibrated, lock, busy_owner, busy_count, move_lock,
                   last_move_summary, stack, ret, calls, prev_dir>>
    /\ UNCHANGED queueVars

\* The finalize loop has stored the result of item m.idx: next item, or the
\* end of the "with self.lock" block (save_calibration, line 483).
FinalAdvance(t, m) ==
    IF m.idx = Len(m.req.items)
    THEN /\ mv' = [mv EXCEPT ![t] = [m EXCEPT !.outcome = "ok"]]
         /\ pc' = [pc EXCEPT ![t] = "mv_release"]
         /\ lock' = NoCtx
    ELSE /\ mv' = [mv EXCEPT ![t] = [m EXCEPT !.idx = m.idx + 1]]
         /\ pc' = [pc EXCEPT ![t] = "mv_final"]
         /\ UNCHANGED lock

\* move() lines 457-481 for one joint, up to the corrective command if any.
MoveFinalStep(t, fb) ==
    /\ pc[t] = "mv_final"
    /\ LET m == mv[t]
           i == m.idx
           j == m.req.items[i].j
       IN \E r \in ReadChoices(fb) :
          LET actual == IF r THEN pos[j] ELSE m.targets[i]
              error == m.targets[i] - actual
              m1 == [m EXCEPT !.fpos[i] = actual, !.ferr[i] = error,
                              !.reads_ok = m.reads_ok /\ r]
          IN /\ faults' = faults + Fault(0, r)
             /\ IF NeedsCorrection(m.req.finalize, error, m.req.deadband)
                THEN /\ mv' = [mv EXCEPT ![t] =
                        [m1 EXCEPT !.corr[i] = error, !.chunk = error,
                                   !.ncorr[i] = @ + 1]]
                     /\ pc' = [pc EXCEPT ![t] = "mv_corr"]
                     /\ UNCHANGED <<current_abs, lock>>
                ELSE /\ current_abs' = [current_abs EXCEPT ![j] = actual]
                     /\ FinalAdvance(t, m1)
    /\ UNCHANGED <<pos, last_dir, backlash, rotation_deg, limits, points,
                   calibrated, busy_owner, busy_count, stop_event, move_lock,
                   last_move_summary, stack, ret, calls, prev_dir>>
    /\ UNCHANGED queueVars

\* The corrective run_for_degrees returns (line 473), lines 474-481.
MoveCorrDone(t, fb) ==
    /\ pc[t] = "mv_corr"
    /\ LET m == mv[t]
           i == m.idx
           j == m.req.items[i].j
       IN \E s \in SlipChoices(fb), r \in ReadChoices(fb) :
          LET np == pos[j] + m.chunk + s
              actual == IF r THEN np ELSE m.fpos[i]
              m1 == [m EXCEPT !.fpos[i] = actual,
                              !.ferr[i] = m.targets[i] - actual,
                              !.corr_slip = Max2(m.corr_slip, Abs(s)),
                              !.reads_ok = m.reads_ok /\ r]
          IN /\ faults + Fault(s, r) <= Max2(fb, faults)
             /\ faults' = faults + Fault(s, r)
             /\ pos' = [pos EXCEPT ![j] = np]
             /\ current_abs' = [current_abs EXCEPT ![j] = actual]
             /\ FinalAdvance(t, m1)
    /\ UNCHANGED <<last_dir, backlash, rotation_deg, limits, points,
                   calibrated, busy_owner, busy_count, stop_event, move_lock,
                   last_move_summary, stack, ret, calls, prev_dir>>
    /\ UNCHANGED queueVars

\* The MoveSummary of a move that reached line 486.
Summary(m) ==
    [new_abs |-> current_abs, items |-> m.req.items,
     converted |-> [i \in 1..Len(m.targets) |-> m.targets[i] - m.start[i]],
     final_error |-> m.ferr, corrections |-> m.corr,
     finalized |-> m.req.finalize, timeout |-> FALSE]

\* move() lines 485-510: the summary of a successful move is retained, and
\* in every case "finally: self._release_busy()".
MoveRelease(t) ==
    /\ pc[t] = "mv_release"
    /\ LockFree
    /\ last_move_summary' = IF mv[t].outcome = "ok" THEN Summary(mv[t])
                            ELSE last_move_summary
    /\ busy_owner' = ReleasedOwner(t)
    /\ busy_count' = ReleasedCount(t)
    /\ ReturnTo(t, mv[t].outcome)
    /\ mv' = [mv EXCEPT ![t] = EmptyMv]
    /\ UNCHANGED <<ctrlVars, lock, stop_event, move_lock, stack, calls,
                   prev_dir, faults>>
    /\ UNCHANGED queueVars

\* stop_all(): sets the stop flag and stops every motor.  A move of another
\* context that has issued a motor command and not yet left its actuation
\* section is marked as stopped in flight.
Commanded(m) ==
    \E i \in 1..Len(m.sent) : m.sent[i] \/ m.corr[i] /= 0

StopAll ==
    /\ stop_event' = TRUE
    /\ mv' = [t \in DOMAIN mv |->
                IF pc[t] \in ActuationPcs /\ Commanded(mv[t])
                THEN [mv[t] EXCEPT !.stopped = TRUE] ELSE mv[t]]
    /\ UNCHANGED <<ctrlVars, lock, busy_owner, busy_count, move_lock,
                   last_move_summary, pc, stack, ret, calls, prev_dir,
                   faults>>
    /\ UNCHANGED queueVars


(* ------------------------------------------------- top-level move calls *)
\* A caller outside the engine (HTTP handler, worker) calls move(req).
MoveCall(t, req, bound) ==
    /\ pc[t] = "idle"
    /\ calls < bound
    /\ calls' = calls + 1
    /\ BeginMove(t, req)
    /\ UNCHANGED <<ctrlVars, lock, busy_owner, busy_count, stop_event,
                   move_lock, last_move_summary, stack, prev_dir,
                   faults>>
    /\ UNCHANGED queueVars

(* ---------------------------------------------------- nested routines *)
\* A suspended caller: the routine, its position, and its arguments.
Frame(op, arg) == [op |-> op, i |-> 0, steps |-> <<>>, arg |-> arg]

Top(t) == stack[t][Len(stack[t])]
Resumes(t, op) ==
    pc[t] = "resume" /\ stack[t] /= <<>> /\ Top(t).op = op

\* The routine whose frame is on top returns or raises.
ReturnFrom(t, outcome) ==
    /\ stack' = [stack EXCEPT ![t] = SubSeq(@, 1, Len(@) - 1)]
    /\ pc' = [pc EXCEPT ![t] = IF Len(stack[t]) = 1 THEN "idle" ELSE "resume"]
    /\ ret' = [ret EXCEPT ![t] = outcome]

\* "finally: self._release_busy()" of the routine on top, then its return.
ReleaseAndReturn(t, outcome) ==
    /\ LockFree
    /\ busy_owner' = ReleasedOwner(t)
    /\ busy_count' = ReleasedCount(t)
    /\ ReturnFrom(t, outcome)

(* ------------------------------------------------------------- goto_pose *)
PoseNames == {"home", "pick_left", "pick_right", "place_left", "place_right"}

\* The poses dictionary of goto_pose, in its insertion order.
PoseItems(name) ==
    CASE name = "home" ->
            <<Item("A", Num(0)), Item("B", Num(0)), Item("C", Num(0)),
              Item("D", Num(0))>>
      [] name = "pick_left" ->
            <<Item("D", Num(-60)), Item("B", Num(-20)), Item("C", Num(30)),
              Item("A", Num(20))>>
      [] name = "pick_right" ->
            <<Item("D", Num(60)), Item("B", Num(-20)), Item("C", Num(30)),
              Item("A", Num(20))>>
      [] name = "place_left" ->
            <<Item("D", Num(-60)), Item("B", Num(10)), Item("C", Num(-10)),
              Item("A", Num(-5))>>
      [] name = "place_right" ->
            <<Item("D", Num(60)), Item("B", Num(10)), Item("C", Num(-10)),
              Item("A", Num(-5))>>

\* goto_pose lines 619-622, entered by a caller with the frame it pushes.
EnterPose(t, name, frames) ==
    IF name \in PoseNames
    THEN /\ stack' = [stack EXCEPT ![t] = frames \o <<Frame("goto_pose", name)>>]
         /\ pc' = [pc EXCEPT ![t] = "gp_acquire"]
         /\ UNCHANGED ret
    ELSE /\ stack' = [stack EXCEPT ![t] = frames]
         /\ pc' = [pc EXCEPT ![t] = IF frames = <<>> THEN "idle" ELSE "resume"]
         /\ ret' = [ret EXCEPT ![t] = "ValueError"]

GotoPoseCall(t, name, bound) ==
    /\ pc[t] = "idle"
    /\ calls < bound
    /\ calls' = calls + 1
    /\ EnterPose(t, name, stack[t])
    /\ UNCHANGED <<ctrlVars, lock, busy_owner, busy_count, stop_event,
                   move_lock, last_move_summary, mv, prev_dir, faults>>
    /\ UNCHANGED queueVars

\* goto_pose lines 621-624: acquire, then move("absolute", poses[name]).
GotoPoseAcquire(t) ==
    /\ pc[t] = "gp_acquire"
    /\ LockFree
    /\ IF AcquireOk(t)
       THEN /\ busy_owner' = t
            /\ busy_count' = busy_count + 1
            /\ BeginMove(t, DefaultReq("absolute", PoseItems(Top(t).arg)))
            /\ UNCHANGED stack
       ELSE /\ ReturnFrom(t, "BUSY")
            /\ UNCHANGED <<busy_owner, busy_count, mv>>
    /\ UNCHANGED <<ctrlVars, lock, stop_event, move_lock, last_move_summary,
                   calls, prev_dir, faults>>
    /\ UNCHANGED queueVars

\* goto_pose lines 625-626: the move returned or raised.
GotoPoseResume(t) ==
    /\ Resumes(t, "goto_pose")
    /\ ReleaseAndReturn(t, ret[t])
    /\ UNCHANGED <<ctrlVars, lock, stop_event, move_lock, last_move_summary,
                   mv, calls, prev_dir, faults>>
    /\ UNCHANGED queueVars

(* ------------------------------------------------------------- pickplace *)
\* seq_pose of pickplace; <<>> for an unsupported combination.
SeqPose(location, action) ==
    IF action \notin {"pick", "place"} THEN <<>>
    ELSE CASE location = "left" ->
                <<IF action = "pick" THEN "pick_left" ELSE "place_left", "home">>
           [] location = "right" ->
                <<IF action = "pick" THEN "pick_right" ELSE "place_right", "home">>
           [] location = "center" -> <<"home">>
           [] OTHER -> <<>>

Grip(action) == IF action = "pick" THEN -30 ELSE 30

PickplaceCall(t, location, action, bound) ==
    /\ pc[t] = "idle"
    /\ calls < bound
    /\ calls' = calls + 1
    /\ IF SeqPose(location, action) = <<>>
       THEN /\ ret' = [ret EXCEPT ![t] = "ValueError"]
            /\ UNCHANGED <<pc, stack>>
       ELSE /\ stack' = [stack EXCEPT ![t] =
                <<[Frame("pickplace", action) EXCEPT
                       !.steps = SeqPose(location, action)]>>]
            /\ pc' = [pc EXCEPT ![t] = "pp_acquire"]
            /\ UNCHANGED ret
    /\ UNCHANGED <<ctrlVars, lock, busy_owner, busy_count, stop_event,
                   move_lock, last_move_summary, mv, prev_dir, faults>>
    /\ UNCHANGED queueVars

\* pickplace lines 640-645: acquire, then the first goto_pose.
PickplaceAcquire(t) ==
    /\ pc[t] = "pp_acquire"
    /\ LockFree
    /\ IF AcquireOk(t)
       THEN /\ busy_owner' = t
            /\ busy_count' = busy_count + 1
            /\ EnterPose(t, Top(t).steps[1], <<[Top(t) EXCEPT !.i = 1]>>)
       ELSE /\ ReturnFrom(t, "BUSY")
            /\ UNCHANGED <<busy_owner, busy_count>>
    /\ UNCHANGED <<ctrlVars, lock, stop_event, move_lock, last_move_summary,
                   mv, calls, prev_dir, faults>>
    /\ UNCHANGED queueVars

\* pickplace lines 644-650: a goto_pose or the grip move returned or raised;
\* the next pose, then the relative grip move, then the release.
PickplaceResume(t) ==
    /\ Resumes(t, "pickplace")
    /\ LET f == Top(t)
           n == Len(f.steps)
       IN IF ret[t] /= "ok" \/ f.i = n + 1
          THEN /\ ReleaseAndReturn(t, ret[t])
               /\ UNCHANGED mv
          ELSE IF f.i < n
          THEN /\ EnterPose(t, f.steps[f.i + 1], <<[f EXCEPT !.i = f.i + 1]>>)
               /\ UNCHANGED <<busy_owner, busy_count, mv>>
          ELSE /\ stack' = [stack EXCEPT ![t] = <<[f EXCEPT !.i = n + 1]>>]
               /\ BeginMove(t, DefaultReq("relative",
                                 <<Item("A", Num(Grip(f.arg)))>>))
               /\ UNCHANGED <<busy_owner, busy_count>>
    /\ UNCHANGED <<ctrlVars, lock, stop_event, move_lock, last_move_summary,
                   calls, prev_dir, faults>>
    /\ UNCHANGED queueVars

(* --------------------------------------------------------------- gamepad *)
\* _gamepad_loop lines 744-755: an axis event becomes a small relative move.
GamepadEvent(t, joint, deg, bound) ==
    /\ pc[t] = "idle"
    /\ calls < bound
    /\ calls' = calls + 1
    /\ stack' = [stack EXCEPT ![t] =
            <<Frame("gamepad", DefaultReq("relative", <<Item(joint, Num(deg))>>))>>]
    /\ pc' = [pc EXCEPT ![t] = "pad_acquire"]
    /\ UNCHANGED <<ctrlVars, lock, busy_owner, busy_count, stop_event,
                   move_lock, last_move_summary, mv, ret, prev_dir, faults>>
    /\ UNCHANGED queueVars

\* _gamepad_loop lines 756-759: the event is dropped when the arm is busy.
GamepadAcquire(t) ==
    /\ pc[t] = "pad_acquire"
    /\ LockFree
    /\ IF AcquireOk(t)
       THEN /\ busy_owner' = t
            /\ busy_count' = busy_count + 1
            /\ BeginMove(t, Top(t).arg)
            /\ UNCHANGED stack
       ELSE /\ ReturnFrom(t, "dropped")
            /\ UNCHANGED <<busy_owner, busy_count, mv>>
    /\ UNCHANGED <<ctrlVars, lock, stop_event, move_lock, last_move_summary,
                   calls, prev_dir, faults>>
    /\ UNCHANGED queueVars

\* _gamepad_loop lines 760-763: errors are swallowed, the lock is released.
GamepadResume(t) ==
    /\ Resumes(t, "gamepad")
    /\ ReleaseAndReturn(t, ret[t])
    /\ UNCHANGED <<ctrlVars, lock, stop_event, move_lock, last_move_summary,
                   mv, calls, prev_dir, faults>>
    /\ UNCHANGED queueVars

(* -------------------------------------------------- finalize_calibration *)
\* The named points finalize_calibration requires of each joint.
\* A variant that requires only the points the limits are derived from.
RequiredForLimits(j) ==
    CASE j = "A" -> {"open", "closed"}
      [] j = "D" -> {"assembly", "neutral", "quality"}
      [] OTHER -> {"min", "max"}
Required(j) ==
    CASE j = "A" -> {"open", "closed"}
      [] j = "D" -> {"assembly", "neutral", "quality"}
      [] OTHER -> {"min", "pick", "max"}

\* The points the soft limit of a joint is derived from.
LimitNames(j) ==
    CASE j = "A" -> {"open", "closed"}
      [] j = "D" -> {"assembly", "neutral", "quality"}
      [] OTHER -> {"min", "max"}

MissingPoints(j) == Required(j) \ DOMAIN points[j]

SetMin(S) == CHOOSE x \in S : \A y \in S : x <= y
SetMax(S) == CHOOSE x \in S : \A y \in S : x >= y

\* A variant that derives the limit with its two ends exchanged.
DerivedLimitSwapped(j) ==
    LET vals == {points[j][n] : n \in LimitNames(j)}
    IN <<SetMax(vals), SetMin(vals)>>
DerivedLimit(j) ==
    LET vals == {points[j][n] : n \in LimitNames(j)}
    IN <<SetMin(vals), SetMax(vals)>>

HomeName(j) ==
    CASE j = "A" -> "open" [] j = "B" -> "min" [] j = "C" -> "max"
      [] OTHER -> "neutral"

JointSeq == <<"A", "B", "C", "D">>

\* The first joint, in the order of the required dictionary, that lacks a
\* required point: the one the ValueError of line 556 is about.
FirstMissing ==
    LET I == {i \in 1..4 : MissingPoints(JointSeq[i]) /= {}}
    IN JointSeq[SetMin(I)]

\* What a calibration routine found when it was called, kept with its frame;
\* missing holds the names listed in the error it raises.
CalSnapshot ==
    [calibrated |-> calibrated, limits |-> limits, points |-> points,
     pos |-> pos, missing |-> {}]

\* The home pose derived by finalize_calibration.
CalibratedHome ==
    [i \in 1..4 |-> Item(JointSeq[i], Num(points[JointSeq[i]][HomeName(JointSeq[i])]))]

FinalizeCall(t, bound) ==
    /\ pc[t] = "idle"
    /\ calls < bound
    /\ calls' = calls + 1
    /\ stack' = [stack EXCEPT ![t] =
                    <<Frame("finalize_calibration", CalSnapshot)>>]
    /\ pc' = [pc EXCEPT ![t] = "fc_acquire"]
    /\ UNCHANGED <<ctrlVars, lock, busy_owner, busy_count, stop_event,
                   move_lock, last_move_summary, mv, ret, prev_dir, faults>>
    /\ UNCHANGED queueVars

\* finalize_calibration lines 543-544.
FinalizeAcquire(t) ==
    /\ pc[t] = "fc_acquire"
    /\ LockFree
    /\ IF AcquireOk(t)
       THEN /\ busy_owner' = t
            /\ busy_count' = busy_count + 1
            /\ pc' = [pc EXCEPT ![t] = "fc_derive"]
            /\ UNCHANGED <<stack, ret>>
       ELSE /\ ReturnFrom(t, "BUSY")
            /\ UNCHANGED <<busy_owner, busy_count>>
    /\ UNCHANGED <<ctrlVars, lock, stop_event, move_lock, last_move_summary,
                   mv, calls, prev_dir, faults>>
    /\ UNCHANGED queueVars

\* finalize_calibration lines 552-595: under the lock the missing points
\* are checked, limits and calibrated are set; then the move to home.
FinalizeDerive(t) ==
    /\ pc[t] = "fc_derive"
    /\ LockFree
    /\ IF \E j \in Joints : MissingPoints(j) /= {}
       THEN /\ pc' = [pc EXCEPT ![t] = "resume"]
            /\ ret' = [ret EXCEPT ![t] = "ValueError"]
            /\ stack' = [stack EXCEPT ![t][Len(stack[t])].arg.missing =
                            MissingPoints(FirstMissing)]
            /\ UNCHANGED <<limits, calibrated, mv>>
       ELSE /\ limits' = [j \in Joints |-> DerivedLimit(j)]
            /\ calibrated' = TRUE
            /\ BeginMove(t, DefaultReq("absolute", CalibratedHome))
            /\ UNCHANGED stack
    /\ UNCHANGED <<current_abs, pos, last_dir, backlash, rotation_deg, points,
                   lock, busy_owner, busy_count, stop_event, move_lock,
                   last_move_summary, calls, prev_dir, faults>>
    /\ UNCHANGED queueVars

\* finalize_calibration lines 601-602.
FinalizeResume(t) ==
    /\ Resumes(t, "finalize_calibration")
    /\ ReleaseAndReturn(t, ret[t])
    /\ UNCHANGED <<ctrlVars, lock, stop_event, move_lock, last_move_summary,
                   mv, calls, prev_dir, faults>>
    /\ UNCHANGED queueVars

(* ------------------------------------------- recording and resetting *)
\* record_named_point (lines 521-529), called by the calibration endpoint.
RecordPoint(t, joint, name, bound) ==
    /\ pc[t] = "idle"
    /\ calls < bound
    /\ calls' = calls + 1
    /\ LockFree
    /\ IF joint \in Joints
       THEN /\ points' = [points EXCEPT ![joint] =
                    [n \in DOMAIN points[joint] \cup {Normalize(name)} |->
                        IF n = Normalize(name) THEN current_abs[joint]
                        ELSE points[joint][n]]]
            /\ ret' = [ret EXCEPT ![t] = "ok"]
       ELSE /\ ret' = [ret EXCEPT ![t] = "ValueError"]
            /\ UNCHANGED points
    /\ UNCHANGED <<current_abs, pos, last_dir, backlash, rotation_deg, limits,
                   calibrated, lock, busy_owner, busy_count, stop_event,
                   move_lock, last_move_summary, pc, stack, mv, prev_dir,
                   faults>>
    /\ UNCHANGED queueVars

\* The limits reset_calibration leaves (line 535).
\* A variant of reset_calibration that keeps the soft limits.
KeptLimits == limits
ResetLimits == [j \in Joints |-> <<>>]

\* reset_calibration lines 533-537: under the lock the points, the limits
\* and calibrated are cleared; line 539 (calibration_status) comes next.
ResetCalibration(t, bound) ==
    /\ pc[t] = "idle"
    /\ calls < bound
    /\ calls' = calls + 1
    /\ LockFree
    /\ lock' = t
    /\ points' = [j \in Joints |-> <<>>]
    /\ limits' = ResetLimits
    /\ calibrated' = FALSE
    /\ stack' = [stack EXCEPT ![t] = <<Frame("reset_calibration", CalSnapshot)>>]
    /\ pc' = [pc EXCEPT ![t] = "rs_status"]
    /\ UNCHANGED <<current_abs, pos, last_dir, backlash, rotation_deg,
                   busy_owner, busy_count, stop_event, move_lock,
                   last_move_summary, mv, ret, prev_dir, faults>>
    /\ UNCHANGED queueVars

\* calibration_status (lines 604-609) takes the lock: called by the status
\* endpoint, and by reset_calibration at line 539, whose "with self.lock"
\* block ends when it returns.
CalibrationStatus(t, bound) ==
    /\ pc[t] \in {"idle", "rs_status"}
    /\ LockFree
    /\ IF pc[t] = "idle"
       THEN /\ calls < bound
            /\ calls' = calls + 1
            /\ ret' = [ret EXCEPT ![t] = "ok"]
            /\ UNCHANGED <<pc, stack, lock>>
       ELSE /\ ReturnFrom(t, "ok")
            /\ lock' = NoCtx
            /\ UNCHANGED calls
    /\ UNCHANGED <<ctrlVars, busy_owner, busy_count, stop_event, move_lock,
                   last_move_summary, mv, prev_dir, faults>>
    /\ UNCHANGED queueVars

(* ------------------------------------------------------- recover_to_home *)
\* current_abs after reading every motor whose getter answers.
Synced(unread) ==
    [j \in Joints |-> IF j \in unread THEN current_abs[j] ELSE pos[j]]

\* The subsets of joints whose position read may fail, within the bound fb.
UnreadChoices(fb) ==
    {U \in SUBSET Joints : Cardinality(U) <= Max2(fb - faults, 0)}

\* The home pose of recover_to_home (lines 684-692), cur being current_abs.
RecoverHome(cur) ==
    IF calibrated /\ "neutral" \in DOMAIN points["D"]
    THEN [i \in 1..4 |->
            LET j == JointSeq[i]
            IN Item(j, Num(IF HomeName(j) \in DOMAIN points[j]
                           THEN points[j][HomeName(j)] ELSE cur[j]))]
    ELSE [i \in 1..4 |-> Item(JointSeq[i], Num(0))]

\* The frame of the call records whether, at the call, another context held
\* the busy-lock inside the actuation section of its move.
RecoverCall(t, bound) ==
    /\ pc[t] = "idle"
    /\ calls < bound
    /\ calls' = calls + 1
    /\ stack' = [stack EXCEPT ![t] = <<Frame("recover_to_home",
                    [contended |-> \E u \in DOMAIN pc :
                        u /= t /\ busy_owner = u /\ lock = u])>>]
    /\ pc' = [pc EXCEPT ![t] = "rc_acquire"]
    /\ UNCHANGED <<ctrlVars, lock, busy_owner, busy_count, stop_event,
                   move_lock, last_move_summary, mv, ret, prev_dir, faults>>
    /\ UNCHANGED queueVars

\* recover_to_home lines 670-671.
RecoverAcquire(t) ==
    /\ pc[t] = "rc_acquire"
    /\ LockFree
    /\ IF AcquireOk(t)
       THEN /\ busy_owner' = t
            /\ busy_count' = busy_count + 1
            /\ pc' = [pc EXCEPT ![t] = "rc_stop"]
            /\ UNCHANGED <<stack, ret>>
       ELSE /\ ReturnFrom(t, "BUSY")
            /\ UNCHANGED <<busy_owner, busy_count>>
    /\ UNCHANGED <<ctrlVars, lock, stop_event, move_lock, last_move_summary,
                   mv, calls, prev_dir, faults>>
    /\ UNCHANGED queueVars

\* recover_to_home line 673: self.stop_all().
RecoverStop(t) ==
    /\ pc[t] = "rc_stop"
    /\ stop_event' = TRUE
    /\ pc' = [pc EXCEPT ![t] = "rc_coast"]
    /\ UNCHANGED <<ctrlVars, lock, busy_owner, busy_count, move_lock,
                   last_move_summary, stack, mv, ret, calls, prev_dir, faults>>
    /\ UNCHANGED queueVars

\* recover_to_home line 675: coast(enable=False) stops every motor and
\* reads its position into current_abs, under the lock.
RecoverCoast(t, fb) ==
    /\ pc[t] = "rc_coast"
    /\ LockFree
    /\ \E U \in UnreadChoices(fb) :
        /\ current_abs' = Synced(U)
        /\ faults' = faults + Cardinality(U)
    /\ pc' = [pc EXCEPT ![t] = "rc_sync"]
    /\ UNCHANGED <<pos, last_dir, backlash, rotation_deg, limits, points,
                   calibrated, lock, busy_owner, busy_count, stop_event,
                   move_lock, last_move_summary, stack, mv, ret, calls,
                   prev_dir>>
    /\ UNCHANGED queueVars

\* recover_to_home lines 676-694: positions are read again, the home pose
\* is chosen, the stop flag is cleared and the move to home is started.
RecoverSync(t, fb) ==
    /\ pc[t] = "rc_sync"
    /\ LockFree
    /\ \E U \in UnreadChoices(fb) :
        /\ current_abs' = Synced(U)
        /\ faults' = faults + Cardinality(U)
        /\ BeginMove(t, Req("absolute", "degrees", RecoverHome(Synced(U)),
                            TRUE, DefaultDeadband, TRUE))
    /\ stop_event' = FALSE
    /\ UNCHANGED <<pos, last_dir, backlash, rotation_deg, limits, points,
                   calibrated, lock, busy_owner, busy_count, move_lock,
                   last_move_summary, stack, calls, prev_dir>>
    /\ UNCHANGED queueVars

\* recover_to_home lines 695-696.
RecoverResume(t) ==
    /\ Resumes(t, "recover_to_home")
    /\ ReleaseAndReturn(t, ret[t])
    /\ UNCHANGED <<ctrlVars, lock, stop_event, move_lock, last_move_summary,
                   mv, calls, prev_dir, faults>>
    /\ UNCHANGED queueVars

(* ---------------------------------------------------------- run_workflow *)
\* _precision_workflow tunables.
Tol == 3
MediumErr == 10
RetryOnFail == 3
SpeedDefault == 100
SpeedDefaultFinal == 35
NudgeSpeed == 40
\* pick_assembly_quality.py, D_RECOVER_DRIFT_DEG: the drift beyond which its
\* run() recovers to home; run_workflow has no such threshold.
CatastrophicDrift == 720
\* A variant of the joint order that starts with the gripper.
GripperFirst == <<"A", "B", "C", "D">>
JointOrder == <<"D", "C", "B", "A">>

\* ArmController.resolve_pose: every point expression of the pose resolves.
PoseOk(pose) ==
    \A j \in DOMAIN pose :
        pose[j].kind = "pt" => /\ j \in Joints
                               /\ Normalize(pose[j].name) \in DOMAIN points[j]

ResolvePose(pose) ==
    [j \in DOMAIN pose |->
        IF pose[j].kind = "pt"
        THEN points[j][Normalize(pose[j].name)] + pose[j].off
        ELSE pose[j].val]

\* The items of a resolved pose, in the order the pose lists its joints.
RECURSIVE PoseSeq(_, _)
PoseSeq(pose, i) ==
    IF i > 4 THEN <<>>
    ELSE (IF JointSeq[i] \in DOMAIN pose
          THEN <<Item(JointSeq[i], Num(pose[JointSeq[i]]))>> ELSE <<>>)
         \o PoseSeq(pose, i + 1)

\* A variant of verify_at with ten times the tolerance.
VerifyJointLoose(j, target) == Abs(current_abs[j] - target) <= 10 * Tol
\* ArmController.verify_at for one joint, and for a whole pose.
VerifyJoint(j, target) == Abs(current_abs[j] - target) <= Tol
VerifyPose(pose) == \A j \in DOMAIN pose : VerifyJoint(j, pose[j])

\* A variant of the skip rule without the exception for the last pose.
UnchangedAnywhere(poses, p, k) ==
    LET j == JointOrder[k]
    IN /\ p /= 1
       /\ j \in DOMAIN poses[p - 1]
       /\ poses[p - 1][j] = poses[p][j]
\* run_workflow lines 392-400: joint k of pose p is skipped as unchanged.
Unchanged(poses, p, k) ==
    LET j == JointOrder[k]
    IN /\ p /= 1
       /\ p /= Len(poses)
       /\ j \in DOMAIN poses[p - 1]
       /\ poses[p - 1][j] = poses[p][j]

\* The first joint of pose p at or after position k of the joint order that
\* the pose lists and that is not skipped; 5 when there is none.
RECURSIVE NextJoint(_, _, _)
NextJoint(poses, p, k) ==
    IF k > 4 THEN 5
    ELSE IF JointOrder[k] \in DOMAIN poses[p] /\ ~Unchanged(poses, p, k) THEN k
    ELSE NextJoint(poses, p, k + 1)

\* A variant that resolves the pose again when the joint is about to move.
StepTargetLazy(f, p, j) == ResolvePose(f.arg.src[p])[j]
\* run_workflow line 390: the target of joint j, read from resolved_steps.
StepTarget(f, p, j) == f.steps[p][j]

\* _move_joint line 255: the speed of an attempt.
AttemptSpeed(attempt) ==
    IF attempt = 1 THEN SpeedDefault ELSE SpeedDefaultFinal

\* The locals of run_workflow and of the _move_joint call in progress: k the
\* position in the joint order, attempt and pass as in the code, flag and
\* prev_flag the settle_failed flags of this pose and the previous one,
\* unstable whether a poll of _verify_stable has found the joint out of
\* tolerance, errs the residuals of the unsettled checks of this call.  What
\* the claims need of the history: src and pts are the steps as given and
\* the named points when run_workflow was called and at the positions then,
\* done the joints of this pose handed to _move_joint, issued the number of
\* moves issued so far and speed the speed of the last one.
WfArg(ignore) ==
    [k |-> 1, attempt |-> 0, pass |-> 1, flag |-> FALSE, prev_flag |-> FALSE,
     nudge |-> FALSE, drift_done |-> FALSE, ignore |-> ignore,
     moved |-> FALSE, unstable |-> FALSE, errs |-> <<>>, done |-> {},
     issued |-> 0, speed |-> 0, src |-> <<>>, pts |-> points,
     at |-> current_abs]

\* A variant in which every joint tolerates a settle failure.
ToleratedAlways(j, ignore) == TRUE
\* _move_joint lines 313 and 318: "joint in IGNORE_SETTLE_FAILURE".
Tolerated(j, ignore) == j \in ignore

\* A variant of the ladder that allows one more recovery attempt.
LadderOneMore(err, attempt) ==
    IF err <= Tol THEN "stop"
    ELSE IF err <= MediumErr THEN (IF attempt >= 2 THEN "stop" ELSE "retry")
    ELSE IF attempt <= RetryOnFail THEN "retry"
    ELSE "stop"
\* What _move_joint does after an unsettled attempt (lines 287-311), with
\* healthy telemetry: "retry" or "stop".
Ladder(err, attempt) ==
    IF err <= Tol THEN "stop"
    ELSE IF err <= MediumErr THEN (IF attempt >= 2 THEN "stop" ELSE "retry")
    ELSE IF attempt = 1 THEN "retry"
    ELSE IF attempt = 2 /\ RetryOnFail >= 3 THEN "retry"
    ELSE "stop"

\* The worker runs a process: run_workflow lines 349-351 resolve every pose.
WorkflowCall(t, steps, ignore, bound) ==
    /\ pc[t] = "idle"
    /\ calls < bound
    /\ calls' = calls + 1
    /\ IF \E i \in 1..Len(steps) : ~PoseOk(steps[i])
       THEN /\ ret' = [ret EXCEPT ![t] = "ValueError"]
            /\ UNCHANGED <<pc, stack>>
       ELSE /\ stack' = [stack EXCEPT ![t] =
                <<[op |-> "workflow", i |-> 1,
                   steps |-> [i \in 1..Len(steps) |-> ResolvePose(steps[i])],
                   arg |-> [WfArg(ignore) EXCEPT !.src = steps]]>>]
            /\ pc' = [pc EXCEPT ![t] = "wf_next"]
            /\ UNCHANGED ret
    /\ UNCHANGED <<ctrlVars, lock, busy_owner, busy_count, stop_event,
                   move_lock, last_move_summary, mv, prev_dir, faults>>
    /\ UNCHANGED queueVars

\* The joint has been dealt with in this pass (settled says how): a second
\* pass when the result asks for one (lines 408-417), else the next joint.
AfterJoint(f, settled) ==
    IF ~settled /\ f.arg.pass = 1
    THEN [f EXCEPT !.arg.pass = 2, !.arg.attempt = 0, !.arg.errs = <<>>,
                   !.arg.unstable = FALSE]
    ELSE [f EXCEPT !.arg.k = f.arg.k + 1, !.arg.pass = 1, !.arg.attempt = 0,
                   !.arg.flag = f.arg.flag \/ ~settled, !.arg.errs = <<>>,
                   !.arg.unstable = FALSE]

\* run_workflow lines 364-403 up to the next move: the drift check of a new
\* pose, the choice of the next joint, and the pre-check of _move_joint
\* (lines 227-239).
WorkflowNext(t) ==
    /\ pc[t] = "wf_next"
    /\ LET f == Top(t)
           a == f.arg
           p == f.i
           k == IF a.pass = 2 THEN a.k ELSE NextJoint(f.steps, p, a.k)
           g == [f EXCEPT !.arg.k = k,
                          !.arg.done = a.done \cup {JointOrder[k]}]
       IN IF p > Len(f.steps)
          THEN ReturnFrom(t, "ok")
          ELSE IF a.k = 1 /\ a.pass = 1 /\ p > 1 /\ a.prev_flag /\ ~a.drift_done
          THEN IF ~VerifyPose(f.steps[p - 1])
                  /\ \E j \in DOMAIN f.steps[p - 1] :
                        Abs(current_abs[j] - f.steps[p - 1][j]) > Tol + 1
               THEN /\ stack' = [stack EXCEPT ![t] = <<[f EXCEPT !.arg.nudge = TRUE]>>]
                    /\ pc' = [pc EXCEPT ![t] = "wf_issue"]
                    /\ UNCHANGED ret
               ELSE /\ stack' = [stack EXCEPT ![t] =
                            <<[f EXCEPT !.arg.drift_done = TRUE]>>]
                    /\ UNCHANGED <<pc, ret>>
          ELSE IF k > 4
          THEN /\ stack' = [stack EXCEPT ![t] =
                    <<[f EXCEPT !.i = p + 1, !.arg.k = 1, !.arg.pass = 1,
                                !.arg.prev_flag = a.flag, !.arg.flag = FALSE,
                                !.arg.drift_done = FALSE, !.arg.done = {}]>>]
               /\ UNCHANGED <<pc, ret>>
          ELSE IF VerifyJoint(JointOrder[k], StepTarget(f, p, JointOrder[k]))
          THEN /\ stack' = [stack EXCEPT ![t] =
                    <<AfterJoint([g EXCEPT !.arg.pass = 2], TRUE)>>]
               /\ UNCHANGED <<pc, ret>>
          ELSE /\ stack' = [stack EXCEPT ![t] =
                    <<[g EXCEPT !.arg.attempt = 1]>>]
               /\ pc' = [pc EXCEPT ![t] = "wf_issue"]
               /\ UNCHANGED ret
    /\ UNCHANGED <<ctrlVars, lock, busy_owner, busy_count, stop_event,
                   move_lock, last_move_summary, mv, calls, prev_dir, faults>>
    /\ UNCHANGED queueVars

\* _issue_move: "with _MOVE_LOCK: return arm.move(...)", for the absolute
\* move of one joint (_abs_move) or the nudge back to the previous pose.
WorkflowIssue(t) ==
    /\ pc[t] = "wf_issue"
    /\ move_lock = NoCtx
    /\ move_lock' = t
    /\ LET f == Top(t)
           j == JointOrder[f.arg.k]
       IN /\ BeginMove(t, DefaultReq("absolute",
                IF f.arg.nudge THEN PoseSeq(f.steps[f.i - 1], 1)
                ELSE <<Item(j, Num(StepTarget(f, f.i, j)))>>))
          /\ stack' = [stack EXCEPT ![t] =
                <<[f EXCEPT !.arg.moved = TRUE,
                            !.arg.issued = f.arg.issued + 1,
                            !.arg.speed = IF f.arg.nudge THEN NudgeSpeed
                                          ELSE AttemptSpeed(f.arg.attempt)]>>]
    /\ UNCHANGED <<ctrlVars, lock, busy_owner, busy_count, stop_event,
                   last_move_summary, calls, prev_dir, faults>>
    /\ UNCHANGED queueVars

\* The move of _issue_move returned or raised: _MOVE_LOCK is released and
\* an error leaves run_workflow.
WorkflowResume(t) ==
    /\ Resumes(t, "workflow")
    /\ move_lock' = NoCtx
    /\ IF ret[t] = "ok"
       THEN /\ pc' = [pc EXCEPT ![t] = "wf_settle"]
            /\ UNCHANGED <<stack, ret>>
       ELSE ReturnFrom(t, ret[t])
    /\ UNCHANGED <<ctrlVars, lock, busy_owner, busy_count, stop_event,
                   last_move_summary, mv, calls, prev_dir, faults>>
    /\ UNCHANGED queueVars

\* _verify_stable lines 78-87 after the move of a joint: a poll before the
\* last one finds the joint out of tolerance (stable = 0, the stability
\* window starts again).
WorkflowPoll(t) ==
    /\ pc[t] = "wf_settle"
    /\ LET f == Top(t)
           j == JointOrder[f.arg.k]
       IN /\ ~f.arg.nudge
          /\ ~f.arg.unstable
          /\ ~VerifyJoint(j, StepTarget(f, f.i, j))
          /\ stack' = [stack EXCEPT ![t] = <<[f EXCEPT !.arg.unstable = TRUE]>>]
    /\ UNCHANGED <<ctrlVars, lock, busy_owner, busy_count, stop_event,
                   move_lock, last_move_summary, pc, mv, ret, calls, prev_dir,
                   faults>>
    /\ UNCHANGED queueVars

\* The last poll of _verify_stable after the move and the retry ladder of
\* _move_joint (lines 271-316).  The joint is settled when the last poll
\* finds it within tolerance and the stability window has passed; after a
\* poll out of tolerance the timeout may end the polling first (late), and
\* the check fails with the residual of the last poll.  The telemetry of
\* ArmController is never unhealthy: verify_at returns numbers and the
\* class has none of the probes _telemetry_unhealthy looks for.
WorkflowSettle(t) ==
    /\ pc[t] = "wf_settle"
    /\ LET f == Top(t)
           a == f.arg
           j == JointOrder[a.k]
           target == StepTarget(f, f.i, j)
           err == Abs(current_abs[j] - target)
           f1 == [f EXCEPT !.arg.errs = Append(a.errs, err)]
       IN IF a.nudge
          THEN /\ stack' = [stack EXCEPT ![t] =
                    <<[f EXCEPT !.arg.nudge = FALSE, !.arg.drift_done = TRUE]>>]
               /\ pc' = [pc EXCEPT ![t] = "wf_next"]
               /\ UNCHANGED ret
          ELSE \E late \in (IF a.unstable /\ VerifyJoint(j, target)
                            THEN BOOLEAN ELSE {FALSE}) :
               IF VerifyJoint(j, target) /\ ~late
               THEN /\ stack' = [stack EXCEPT ![t] =
                         <<AfterJoint([f EXCEPT !.arg.pass = 2], TRUE)>>]
                    /\ pc' = [pc EXCEPT ![t] = "wf_next"]
                    /\ UNCHANGED ret
               ELSE IF Ladder(err, a.attempt) = "retry"
               THEN /\ stack' = [stack EXCEPT ![t] =
                         <<[f1 EXCEPT !.arg.attempt = a.attempt + 1,
                                      !.arg.unstable = FALSE]>>]
                    /\ pc' = [pc EXCEPT ![t] = "wf_issue"]
                    /\ UNCHANGED ret
               ELSE IF ~Tolerated(j, a.ignore)
               THEN ReturnFrom(t, "SettleFailure")
               ELSE /\ stack' = [stack EXCEPT ![t] = <<AfterJoint(f1, FALSE)>>]
                    /\ pc' = [pc EXCEPT ![t] = "wf_next"]
                    /\ UNCHANGED ret
    /\ UNCHANGED <<ctrlVars, lock, busy_owner, busy_count, stop_event,
                   move_lock, last_move_summary, mv, calls, prev_dir, faults>>
    /\ UNCHANGED queueVars

(* --------------------------------------------- the sequential specification *)
\* One synchronous caller issuing move requests, and stop requests arriving
\* at any time.
Caller == "h"

\* Calibration files the controller may start from (arm_calibration.json).
NoPoints == [j \in Joints |-> <<>>]
FilePoints ==
    [j \in Joints |->
        CASE j = "A" -> [open |-> 20, closed |-> -10]
          [] j = "D" -> [assembly |-> -60, neutral |-> 0, quality |-> 60]
          [] OTHER -> [min |-> -20, pick |-> 5, max |-> 30]]

InitDirs == {[j \in Joints |-> IF j = "A" THEN d ELSE 0] : d \in {-1, 0, 1}}
InitBacklash ==
    {[j \in Joints |-> IF j \in {"A", "B"} THEN b ELSE 0] : b \in {1, 3}}

\* Degrees per rotation of joint A, as set by the rotation endpoint and
\* loaded from the calibration file.
InitRotations ==
    {[j \in Joints |-> IF j = "A" THEN r ELSE DefaultRotation] :
        r \in {DefaultRotation, 365}}

A1(r) == <<Item("A", r)>>
MoveReqs ==
    { DefaultReq("relative", A1(Num(10))),
      DefaultReq("relative", A1(Num(30))),
      DefaultReq("absolute", A1(Num(-10))),
      DefaultReq("absolute", A1(Num(50))),
      DefaultReq("absolute", <<Item("A", Num(10)), Item("B", Num(10))>>),
      DefaultReq("absolute", A1(Pt("Open", 5))),
      DefaultReq("absolute", <<Item("A", Num(10)), Item("B", Pt("nowhere", 0))>>),
      DefaultReq("absolute", <<Item("A", Num(10)), Item("Z", Num(5))>>),
      DefaultReq("diagonal", A1(Num(10))),
      Req("relative", "radians", A1(Num(10)), TRUE, DefaultDeadband, FALSE),
      Req("relative", "rotations", A1(Num(1)), TRUE, 1, FALSE),
      Req("relative", "degrees", A1(Num(13000)), FALSE, DefaultDeadband, TRUE) }

InitCommon(ctxs) ==
    /\ current_abs = [j \in Joints |-> 0]
    /\ pos = [j \in Joints |-> 0]
    /\ limits = [j \in Joints |-> <<>>]
    /\ calibrated = FALSE
    /\ lock = NoCtx
    /\ busy_owner = NoCtx
    /\ busy_count = 0
    /\ stop_event = FALSE
    /\ move_lock = NoCtx
    /\ last_move_summary = NoSummary
    /\ pc = [t \in ctxs |-> "idle"]
    /\ stack = [t \in ctxs |-> <<>>]
    /\ mv = [t \in ctxs |-> EmptyMv]
    /\ ret = [t \in ctxs |-> ""]
    /\ calls = 0
    /\ faults = 0
    /\ ops = <<>>
    /\ op_queue = <<>>
    /\ wk_op = 0

InitMove ==
    /\ InitCommon({Caller})
    /\ rotation_deg \in InitRotations
    /\ last_dir \in InitDirs
    /\ prev_dir = last_dir
    /\ backlash \in InitBacklash
    /\ points = FilePoints

NextMove ==
    \/ \E req \in MoveReqs : MoveCall(Caller, req, MaxCalls)
    \/ MoveAcquire(Caller)
    \/ MoveEnter(Caller)
    \/ MoveOpenIssue(Caller)
    \/ MoveOpenDone(Caller, MaxFaults)
    \/ MoveFinalStep(Caller, MaxFaults)
    \/ MoveCorrDone(Caller, MaxFaults)
    \/ MoveRelease(Caller)
    \/ FinalizeCall(Caller, MaxCalls)
    \/ FinalizeAcquire(Caller)
    \/ FinalizeDerive(Caller)
    \/ FinalizeResume(Caller)
    \/ StopAll

SpecMove == InitMove /\ [][NextMove]_vars

(* ------------------------------------------ the calibration specification *)
\* One synchronous caller of the calibration endpoint, moving the arm and
\* recording points, starting from one of several calibration files.
PartialPoints ==
    [j \in Joints |->
        CASE j = "A" -> [open |-> 20, closed |-> -10]
          [] j = "B" -> [min |-> -20, max |-> 30]
          [] j = "C" -> [min |-> -20, pick |-> 5, max |-> 30]
          [] OTHER -> [assembly |-> -60, neutral |-> 0]]
WidePick == [FilePoints EXCEPT !["C"] = [min |-> -20, pick |-> 45, max |-> 30]]
CalFiles == {NoPoints, PartialPoints, FilePoints, WidePick}

CalReqs == { DefaultReq("absolute", <<Item("B", Num(40))>>) }
RecordArgs == {<<"B", "pick">>, <<"D", "quality">>, <<"Z", "pick">>}

InitCal ==
    /\ InitCommon({Caller})
    /\ rotation_deg = [j \in Joints |-> DefaultRotation]
    /\ last_dir = [j \in Joints |-> 0]
    /\ prev_dir = last_dir
    /\ backlash = [j \in Joints |-> 0]
    /\ points \in CalFiles

NextCal ==
    \/ \E a \in RecordArgs : RecordPoint(Caller, a[1], a[2], MaxCalCalls)
    \/ ResetCalibration(Caller, MaxCalCalls)
    \/ CalibrationStatus(Caller, MaxCalCalls)
    \/ FinalizeCall(Caller, MaxCalCalls)
    \/ FinalizeAcquire(Caller)
    \/ FinalizeDerive(Caller)
    \/ FinalizeResume(Caller)
    \/ \E req \in CalReqs : MoveCall(Caller, req, MaxCalCalls)
    \/ MoveAcquire(Caller)
    \/ MoveEnter(Caller)
    \/ MoveOpenIssue(Caller)
    \/ MoveOpenDone(Caller, 0)
    \/ MoveFinalStep(Caller, 0)
    \/ MoveRelease(Caller)
    \/ StopAll

SpecCal == InitCal /\ [][NextCal]_vars

\* The calibration specification with the scheduling of the caller's thread:
\* a call in progress whose next step is possible takes it in the end.
FairSpecCal ==
    SpecCal /\ WF_vars(pc[Caller] /= "idle" /\ NextCal)

(* --------------------------------------------- the concurrent specification *)
\* The callers of the controller: the job worker thread, a synchronous HTTP
\* handler thread and the gamepad thread.
Worker == "w"
Handler == "h"
Gamepad == "g"
Ctx == {Worker, Handler, Gamepad}

\* processes/pick_quality_assembly.py, the step list handed to run_workflow.
PickQualityAssembly ==
    LET P(a, b, c, d) == [j \in Joints |->
            CASE j = "A" -> Pt(a, 0) [] j = "B" -> Pt(b, 0)
              [] j = "C" -> Pt(c, 0) [] OTHER -> Pt(d, 0)]
    IN << P("open", "min", "max", "neutral"),
          P("open", "min", "max", "quality"),
          P("open", "pick", "max", "quality"),
          P("open", "pick", "pick", "quality"),
          P("closed", "pick", "pick", "quality"),
          P("closed", "pick", "max", "quality"),
          P("closed", "min", "max", "neutral"),
          P("closed", "min", "max", "assembly"),
          P("closed", "pick", "max", "assembly"),
          P("closed", "pick", "pick", "assembly"),
          P("open", "pick", "pick", "assembly"),
          P("open", "pick", "max", "assembly"),
          P("open", "min", "max", "neutral") >>

\* The process run by the model: the first MaxSteps poses of the list.
ProcessSteps == SubSeq(PickQualityAssembly, 1, MaxSteps)

\* IGNORE_SETTLE_FAILURE, set from the environment when the module loads.
IgnoreChoices == {{}, Joints}

ConcReqs ==
    { DefaultReq("relative", A1(Num(10))),
      DefaultReq("absolute", <<Item("B", Num(10)), Item("C", Num(10))>>) }

Init ==
    /\ InitCommon(Ctx)
    /\ rotation_deg = [j \in Joints |-> DefaultRotation]
    /\ last_dir = [j \in Joints |-> 0]
    /\ prev_dir = last_dir
    /\ backlash = [j \in Joints |-> 0]
    /\ points = FilePoints

\* The HTTP layer refuses pose, pick-and-place and process requests while
\* the arm is not calibrated (do_POST, NOT_CALIBRATED).
Next ==
    \/ \E t \in {Worker, Handler} : \E req \in ConcReqs :
            MoveCall(t, req, MaxConcCalls)
    \/ \E name \in PoseNames :
            calibrated /\ GotoPoseCall(Worker, name, MaxConcCalls)
    \/ \E l \in {"left", "right"} : \E a \in {"pick", "place"} :
            calibrated /\ PickplaceCall(Worker, l, a, MaxConcCalls)
    \/ \E ign \in IgnoreChoices :
            calibrated /\ WorkflowCall(Worker, ProcessSteps, ign, MaxConcCalls)
    \/ FinalizeCall(Handler, MaxConcCalls)
    \/ RecoverCall(Handler, MaxConcCalls)
    \/ \E d \in {-5, 5} : GamepadEvent(Gamepad, "A", d, MaxConcCalls)
    \/ \E t \in Ctx : MoveAcquire(t)
    \/ \E t \in Ctx : MoveEnter(t)
    \/ \E t \in Ctx : MoveOpenIssue(t)
    \/ \E t \in Ctx : MoveOpenDone(t, 0)
    \/ \E t \in Ctx : MoveFinalStep(t, 0)
    \/ \E t \in Ctx : MoveCorrDone(t, 0)
    \/ \E t \in Ctx : MoveRelease(t)
    \/ \E t \in Ctx : GotoPoseAcquire(t)
    \/ \E t \in Ctx : GotoPoseResume(t)
    \/ \E t \in Ctx : PickplaceAcquire(t)
    \/ \E t \in Ctx : PickplaceResume(t)
    \/ \E t \in Ctx : GamepadAcquire(t)
    \/ \E t \in Ctx : GamepadResume(t)
    \/ \E t \in Ctx : FinalizeAcquire(t)
    \/ \E t \in Ctx : FinalizeDerive(t)
    \/ \E t \in Ctx : FinalizeResume(t)
    \/ \E t \in Ctx : RecoverAcquire(t)
    \/ \E t \in Ctx : RecoverStop(t)
    \/ \E t \in Ctx : RecoverCoast(t, 0)
    \/ \E t \in Ctx : RecoverSync(t, 0)
    \/ \E t \in Ctx : RecoverResume(t)
    \/ \E t \in Ctx : WorkflowNext(t)
    \/ \E t \in Ctx : WorkflowIssue(t)
    \/ \E t \in Ctx : WorkflowResume(t)
    \/ \E t \in Ctx : WorkflowSettle(t)
    \/ StopAll

Spec == Init /\ [][Next]_vars

(* ----------------------------------------- the workflow specification *)
\* The worker runs a process on the calibrated arm, as one of the first
\* MaxWfFirst calls, while the gamepad thread jogs the gripper and a handler
\* records a point.
MaxWfCalls == 3
MaxWfFirst == 1

\* A calibration file whose pick points lie beyond the recorded maxima, by
\* 6 degrees for B and by 15 degrees for C (WidePick: for C only).
OffPick ==
    [FilePoints EXCEPT !["B"] = [min |-> -20, pick |-> 36, max |-> 30],
                       !["C"] = [min |-> -20, pick |-> 45, max |-> 30]]
\* A calibration file whose base joint turns through more than two rotations
\* of its motor on either side.
WideBase ==
    [FilePoints EXCEPT !["D"] = [assembly |-> -800, neutral |-> 0,
                                 quality |-> 800]]
WfFiles == {FilePoints, OffPick, WidePick, WideBase}

\* A synchronous move request of a handler: the base back to neutral.
WfReqs == { DefaultReq("absolute", <<Item("D", Num(0))>>) }

\* Step lists handed to run_workflow: the descent of the process to the pick
\* point, a gripper cycle, and a list naming an unknown point.
DescendSteps == SubSeq(PickQualityAssembly, 3, 2 + MaxSteps)
GripSteps ==
    << [j \in {"A"} |-> Pt("open", 0)],
       [j \in {"A"} |-> Pt("closed", 0)],
       [j \in {"A"} |-> Pt("open", 0)] >>
LostSteps ==
    << [j \in {"A"} |-> Pt("closed", 0)],
       [j \in {"A"} |-> Pt("nowhere", 0)] >>
WfStepLists == {DescendSteps, GripSteps, LostSteps}

\* The controller after finalize_calibration: the limits are derived and
\* calibrated is set; the arm stands at the home pose when the move to home
\* was made, and where it was (at zero) when a stop request interrupted it.
InitWorkflow ==
    /\ points \in WfFiles
    /\ calibrated = TRUE
    /\ limits = [j \in Joints |-> DerivedLimit(j)]
    /\ \E homed \in (IF points = FilePoints THEN BOOLEAN ELSE {TRUE}) :
        LET home == [j \in Joints |->
                        IF homed THEN points[j][HomeName(j)] ELSE 0]
        IN /\ current_abs = home
           /\ pos = home
           /\ last_dir = [j \in Joints |-> Sign(home[j])]
           /\ last_move_summary =
                IF homed
                THEN [new_abs |-> home, items |-> CalibratedHome,
                      converted |-> [i \in 1..4 |-> home[JointSeq[i]]],
                      final_error |-> [i \in 1..4 |-> 0],
                      corrections |-> [i \in 1..4 |-> 0],
                      finalized |-> TRUE, timeout |-> FALSE]
                ELSE NoSummary
    /\ prev_dir = last_dir
    /\ rotation_deg = [j \in Joints |-> DefaultRotation]
    /\ backlash = [j \in Joints |-> 0]
    /\ lock = NoCtx
    /\ busy_owner = NoCtx
    /\ busy_count = 0
    /\ stop_event = FALSE
    /\ move_lock = NoCtx
    /\ pc = [t \in Ctx |-> "idle"]
    /\ stack = [t \in Ctx |-> <<>>]
    /\ mv = [t \in Ctx |-> EmptyMv]
    /\ ret = [t \in Ctx |-> ""]
    /\ calls = 0
    /\ faults = 0
    /\ ops = <<>>
    /\ op_queue = <<>>
    /\ wk_op = 0

NextWorkflow ==
    \/ \E steps \in WfStepLists : \E ign \in IgnoreChoices :
            WorkflowCall(Worker, steps, ign, MaxWfFirst)
    \/ \E d \in {-5, 5} : GamepadEvent(Gamepad, "A", d, MaxWfCalls)
    \/ RecordPoint(Handler, "A", "open", MaxWfCalls)
    \/ \E req \in WfReqs : MoveCall(Handler, req, MaxWfCalls)
    \/ \E t \in Ctx : MoveAcquire(t)
    \/ \E t \in Ctx : MoveEnter(t)
    \/ \E t \in Ctx : MoveOpenIssue(t)
    \/ \E t \in Ctx : MoveOpenDone(t, 0)
    \/ \E t \in Ctx : MoveFinalStep(t, 0)
    \/ \E t \in Ctx : MoveRelease(t)
    \/ \E t \in Ctx : GamepadAcquire(t)
    \/ \E t \in Ctx : GamepadResume(t)
    \/ \E t \in Ctx : WorkflowNext(t)
    \/ \E t \in Ctx : WorkflowIssue(t)
    \/ \E t \in Ctx : WorkflowResume(t)
    \/ \E t \in Ctx : WorkflowPoll(t)
    \/ \E t \in Ctx : WorkflowSettle(t)

SpecWorkflow == InitWorkflow /\ [][NextWorkflow]_vars

(* -------------------------------------------- the settle specification *)
\* _move_joint and _verify_stable take any arm object: the worker calls
\* _move_joint on an arm whose verify_at reports any residual (the position
\* flickers, the joint is stubborn, a read is missing) and that may offer a
\* telemetry probe, as the stub of test_precision_workflow.py does.  Time is
\* counted in units of 0.02 s.
MaxMjCalls == 2
MaxJitter == 1
PollInterval == 6
StableWindow == 10
StableOkPolls == 2
SettleTimeoutBase == 75
\* float("nan"), the residual of a read that is missing.
NaN == -1
\* The residuals verify_at may report: within the tolerance, medium, large,
\* missing.
Residuals == {0, 2, 6, 15, NaN}
\* verify_at: "ok = all(errs[j] <= tol[j] ...)"; a comparison with NaN is
\* false.
InTol(r) == r /= NaN /\ r <= Tol

\* A variant that keeps the count over an out-of-tolerance read.
StableKept(stable, ok) == IF ok THEN stable + 1 ELSE stable
\* _verify_stable lines 80-86: the count of in-tolerance reads.
StableAfter(stable, ok) == IF ok THEN stable + 1 ELSE 0

\* _move_joint lines 227-251: the pre-check, then the locals of the loop.
\* now, stable and last_change are the locals of the _verify_stable call in
\* progress (t0 is 0); what the claims need of the history: run, the number
\* of in-tolerance reads since the last out-of-tolerance one, reads, the
\* number of reads of this check, and moves, the number of moves issued.
MoveJointCall(t, joint, healthy, ignore, bound) ==
    /\ pc[t] = "idle"
    /\ calls < bound
    /\ calls' = calls + 1
    /\ \E r \in Residuals :
        IF InTol(r)
        THEN /\ ret' = [ret EXCEPT ![t] = "ok"]
             /\ UNCHANGED <<pc, stack>>
        ELSE /\ stack' = [stack EXCEPT ![t] =
                    <<Frame("move_joint",
                        [joint |-> joint, healthy |-> healthy,
                         ignore |-> ignore, attempt |-> 1,
                         tele_used |-> FALSE, settle_ok |-> FALSE,
                         err |-> r, moves |-> 0, speed |-> 0,
                         now |-> 0, stable |-> 0, last_change |-> 0,
                         run |-> 0, reads |-> 0])>>]
             /\ pc' = [pc EXCEPT ![t] = "mj_issue"]
             /\ UNCHANGED ret
    /\ UNCHANGED <<ctrlVars, lock, busy_owner, busy_count, stop_event,
                   move_lock, last_move_summary, mv, prev_dir, faults>>
    /\ UNCHANGED queueVars

\* _move_joint lines 254-270: the move of this attempt (the stub records
\* it), then the first read of _verify_stable (lines 73-76).
MjIssue(t) ==
    /\ pc[t] = "mj_issue"
    /\ \E r \in Residuals :
        stack' = [stack EXCEPT ![t] =
            <<[Top(t) EXCEPT
                !.arg.moves = @ + 1,
                !.arg.speed = AttemptSpeed(Top(t).arg.attempt),
                !.arg.err = r,
                !.arg.now = 0,
                !.arg.last_change = 0,
                !.arg.stable = IF InTol(r) THEN 1 ELSE 0,
                !.arg.run = IF InTol(r) THEN 1 ELSE 0,
                !.arg.reads = 1]>>]
    /\ pc' = [pc EXCEPT ![t] = "vs_loop"]
    /\ UNCHANGED <<ctrlVars, lock, busy_owner, busy_count, stop_event,
                   move_lock, last_move_summary, mv, ret, calls, prev_dir,
                   faults>>
    /\ UNCHANGED queueVars

\* _verify_stable lines 78-88: the loop condition, the sleep (it may last
\* longer than asked), the read, and the return of True or, when the
\* timeout has elapsed, of False with the residual of the last read.
VsPoll(t) ==
    /\ pc[t] = "vs_loop"
    /\ LET a == Top(t).arg
       IN IF a.now >= SettleTimeoutBase
          THEN /\ stack' = [stack EXCEPT ![t] =
                    <<[Top(t) EXCEPT !.arg.settle_ok = FALSE]>>]
               /\ pc' = [pc EXCEPT ![t] = "mj_class"]
          ELSE \E d \in 0..MaxJitter : \E r \in Residuals :
               LET now == a.now + PollInterval + d
                   stable == StableAfter(a.stable, InTol(r))
                   f == [Top(t) EXCEPT
                            !.arg.now = now,
                            !.arg.err = r,
                            !.arg.stable = stable,
                            !.arg.last_change =
                                IF InTol(r) THEN a.last_change ELSE now,
                            !.arg.run = IF InTol(r) THEN a.run + 1 ELSE 0,
                            !.arg.reads = a.reads + 1]
               IN IF /\ InTol(r)
                     /\ stable >= StableOkPolls
                     /\ now - a.last_change >= StableWindow
                  THEN /\ stack' = [stack EXCEPT ![t] =
                            <<[f EXCEPT !.arg.settle_ok = TRUE]>>]
                       /\ pc' = [pc EXCEPT ![t] = "mj_class"]
                  ELSE /\ stack' = [stack EXCEPT ![t] = <<f>>]
                       /\ UNCHANGED pc
    /\ UNCHANGED <<ctrlVars, lock, busy_owner, busy_count, stop_event,
                   move_lock, last_move_summary, mv, ret, calls, prev_dir,
                   faults>>
    /\ UNCHANGED queueVars

\* _move_joint lines 272-337 after the settle check: the telemetry retry
\* (_telemetry_unhealthy: a missing residual or a probe that says
\* unhealthy), the retry ladder, and the result or the RuntimeError.
MjClassify(t) ==
    /\ pc[t] = "mj_class"
    /\ LET a == Top(t).arg
           unhealthy == a.err = NaN \/ ~a.healthy
           err == IF a.err = NaN THEN MediumErr + 1 ELSE a.err
       IN IF a.settle_ok
          THEN ReturnFrom(t, "ok")
          ELSE IF (unhealthy /\ ~a.tele_used) \/ Ladder(err, a.attempt) = "retry"
          THEN /\ stack' = [stack EXCEPT ![t] =
                    <<[Top(t) EXCEPT
                        !.arg.attempt = @ + 1,
                        !.arg.tele_used =
                            a.tele_used \/ unhealthy]>>]
               /\ pc' = [pc EXCEPT ![t] = "mj_issue"]
               /\ UNCHANGED ret
          ELSE IF ~Tolerated(a.joint, a.ignore)
          THEN ReturnFrom(t, "SettleFailure")
          ELSE ReturnFrom(t, "ok")
    /\ UNCHANGED <<ctrlVars, lock, busy_owner, busy_count, stop_event,
                   move_lock, last_move_summary, mv, calls, prev_dir, faults>>
    /\ UNCHANGED queueVars

InitSettle ==
    /\ InitCommon({Worker})
    /\ rotation_deg = [j \in Joints |-> DefaultRotation]
    /\ last_dir = [j \in Joints |-> 0]
    /\ prev_dir = last_dir
    /\ backlash = [j \in Joints |-> 0]
    /\ points = FilePoints

NextSettle ==
    \/ \E healthy \in BOOLEAN : \E ign \in IgnoreChoices :
            MoveJointCall(Worker, "D", healthy, ign, MaxMjCalls)
    \/ MjIssue(Worker)
    \/ VsPoll(Worker)
    \/ MjClassify(Worker)

SpecSettle == InitSettle /\ [][NextSettle]_vars

(* -------------------------------------------- the queue specification *)
\* Handler threads submit move operations (async_exec) or call move
\* themselves; the single worker thread drains op_queue.
QueueReqs ==
    { DefaultReq("relative", A1(Num(10))),
      DefaultReq("diagonal", A1(Num(10))) }

\* queue.Queue.get: the operation that was put first.
\* A variant that takes the operation that was put last.
QueueLast(q) == q[Len(q)]
QueueHead(q) == q[1]

\* do_POST /v1/arm/move with async_exec: the operation is created with
\* status "queued", stored in ops and put on op_queue.
Submit(req) ==
    /\ Len(ops) < MaxOps
    /\ ValidUnits(req.units)
    /\ req.items /= <<>>
    /\ ops' = Append(ops, [kind |-> "move", req |-> req, status |-> "queued"])
    /\ op_queue' = Append(op_queue, Len(ops) + 1)
    /\ UNCHANGED <<ctrlVars, lock, busy_owner, busy_count, stop_event,
                   move_lock, last_move_summary, pc, stack, mv, ret, calls,
                   prev_dir, faults, wk_op>>

\* worker lines 793-797: op = op_queue.get(); op["status"] = "running".
WorkerTake ==
    /\ pc[Worker] = "idle"
    /\ wk_op = 0
    /\ op_queue /= <<>>
    /\ LET k == QueueHead(op_queue)
       IN /\ wk_op' = k
          /\ op_queue' = SelectSeq(op_queue, LAMBDA x : x /= k)
          /\ ops' = [ops EXCEPT ![k].status = "running"]
    /\ ret' = [ret EXCEPT ![Worker] = "pending"]
    /\ UNCHANGED <<ctrlVars, lock, busy_owner, busy_count, stop_event,
                   move_lock, last_move_summary, pc, stack, mv, calls,
                   prev_dir, faults>>

\* worker lines 803-816: the operation taken is a move; arm.move is called.
WorkerMove ==
    /\ wk_op /= 0
    /\ ret[Worker] = "pending"
    /\ ops[wk_op].kind = "move"
    /\ MoveCall(Worker, ops[wk_op].req, calls + 1)

\* worker lines 827-841: the call returned (succeeded) or raised (failed);
\* the worker goes back to op_queue.get().
WorkerFinish ==
    /\ pc[Worker] = "idle"
    /\ wk_op /= 0
    /\ ret[Worker] /= "pending"
    /\ ops' = [ops EXCEPT ![wk_op].status =
                    IF ret[Worker] = "ok" THEN "succeeded" ELSE "failed"]
    /\ wk_op' = 0
    /\ UNCHANGED <<ctrlVars, lock, busy_owner, busy_count, stop_event,
                   move_lock, last_move_summary, pc, stack, mv, ret, calls,
                   prev_dir, faults, op_queue>>

InitQueue ==
    /\ InitCommon({Worker, Handler})
    /\ rotation_deg = [j \in Joints |-> DefaultRotation]
    /\ last_dir = [j \in Joints |-> 0]
    /\ prev_dir = last_dir
    /\ backlash = [j \in Joints |-> 0]
    /\ points = FilePoints

NextQueue ==
    \/ \E req \in QueueReqs : Submit(req)
    \/ WorkerTake
    \/ WorkerMove
    \/ WorkerFinish
    \/ \E req \in ConcReqs : MoveCall(Handler, req, MaxSyncCalls)
    \/ \E t \in {Worker, Handler} : MoveAcquire(t)
    \/ \E t \in {Worker, Handler} : MoveEnter(t)
    \/ \E t \in {Worker, Handler} : MoveOpenIssue(t)
    \/ \E t \in {Worker, Handler} : MoveOpenDone(t, 0)
    \/ \E t \in {Worker, Handler} : MoveFinalStep(t, 0)
    \/ \E t \in {Worker, Handler} : MoveRelease(t)
    \/ StopAll

SpecQueue == InitQueue /\ [][NextQueue]_vars

\* The queue specification with the calibration reset endpoint, which any
\* handler thread may serve while operations are queued or running.
NextQueueReset ==
    \/ NextQueue
    \/ ResetCalibration(Handler, MaxOps)
    \/ CalibrationStatus(Handler, MaxOps)

\* The steps the worker thread and a handler thread inside a call take by
\* themselves: everything but the arrival of a request.
ThreadsRun ==
    \/ WorkerTake
    \/ WorkerMove
    \/ WorkerFinish
    \/ \E t \in {Worker, Handler} :
            \/ MoveAcquire(t)
            \/ MoveEnter(t)
            \/ MoveOpenIssue(t)
            \/ MoveOpenDone(t, 0)
            \/ MoveFinalStep(t, 0)
            \/ MoveRelease(t)
    \/ (pc[Handler] = "rs_status" /\ CalibrationStatus(Handler, MaxOps))

\* Threads that can run are scheduled in the end.
FairSpecQueue ==
    InitQueue /\ [][NextQueueReset]_vars /\ WF_vars(ThreadsRun)

(* ================================================================ claims *)

\* C1: in every interleaving of the worker, the synchronous handlers and the
\* gamepad thread, at most one context is inside the actuation section of
\* move (where run_for_degrees is called), and that context holds both the
\* controller lock and the busy-lock.
C1_OneContextActuates ==
    \A t \in DOMAIN pc :
        pc[t] \in ActuationPcs =>
            /\ lock = t
            /\ busy_owner = t
            /\ \A u \in DOMAIN pc \ {t} : pc[u] \notin ActuationPcs

\* One context is inside a motor command while another has called move.
C1_Contention ==
    \E t, u \in DOMAIN pc :
        t /= u /\ pc[t] = "mv_cmd" /\ pc[u] = "mv_acquire"

\* C2: a move call made while the move of another context is in flight
\* never waits for that move and never gets hold of the busy-lock (it fails
\* with BUSY at once).
C2_BusyImmediately ==
    \A t \in DOMAIN pc :
        mv[t].contended =>
            /\ ~(pc[t] = "mv_acquire" /\ lock /= NoCtx)
            /\ pc[t] \notin InFlightPcs

\* C3: the busy-lock depth equals the number of routines of the owner that
\* have acquired it and not yet released it (nested acquires count up), no
\* other context holds any, and the lock has no owner exactly when the depth
\* is zero.
C3_ReentrantDepth ==
    LET acquirePcs == {"gp_acquire", "pp_acquire", "pad_acquire",
                       "fc_acquire", "rc_acquire"}
        depth(t) ==
            Cardinality({i \in 1..Len(stack[t]) : stack[t][i].op /= "workflow"})
            - (IF pc[t] \in acquirePcs THEN 1 ELSE 0)
            + (IF pc[t] \in InFlightPcs THEN 1 ELSE 0)
    IN /\ (busy_owner = NoCtx) <=> (busy_count = 0)
       /\ \A t \in DOMAIN pc :
            IF busy_owner = t THEN busy_count = depth(t) ELSE depth(t) = 0

\* The move nested in goto_pose nested in pickplace has released, the two
\* outer routines still hold the lock, and another context is calling move.
C3_NestedReleased ==
    \E t, u \in DOMAIN pc :
        /\ t /= u
        /\ busy_owner = t /\ busy_count = 2
        /\ pc[t] = "resume" /\ Len(stack[t]) = 2
        /\ stack[t][1].op = "pickplace"
        /\ pc[u] = "mv_acquire"

\* C4: a move called by another context while a workflow is between its
\* moves never gets hold of the busy-lock as long as the workflow runs.
C4_WorkflowExclusive ==
    \A t \in DOMAIN pc :
        (mv[t].during_wf /\ \E u \in DOMAIN pc \ {t} : WorkflowMoving(u))
            => pc[t] \notin InFlightPcs

\* C5: when move is about to raise Timeout or Interrupted, current_abs of
\* every joint it has sent a command to is the motor's position or the
\* computed target.
C5_UpdatedOnFailure ==
    \A t \in DOMAIN pc :
        (pc[t] = "mv_release" /\ mv[t].outcome \in {"Timeout", "Interrupted"})
            => \A i \in DOMAIN mv[t].sent :
                 mv[t].sent[i] =>
                    current_abs[mv[t].req.items[i].j] \in
                        {pos[mv[t].req.items[i].j], mv[t].targets[i]}

\* C6: no step of a move call whose request has an invalid mode, invalid
\* units, an unknown joint or an unresolvable point changes current_abs, the
\* motor positions, last_dir, limits or the stop flag.
C6_InvalidRejectedUnchanged ==
    [][\A t \in DOMAIN pc :
        (\/ /\ pc[t] \in MovePcs
            /\ pc'[t] /= pc[t]
            /\ \E i \in 1..Len(mv[t].req.items) : ~ItemOk(mv[t].req.items[i])
         \/ /\ pc[t] = "idle" /\ pc'[t] = "idle"
            /\ calls' /= calls
            /\ ret'[t] = "ValueError")
        => UNCHANGED <<current_abs, pos, last_dir, limits, stop_event>>]_vars

\* C7: a move that was sent a global stop after its first motor command and
\* before the end of its actuation section ends with Interrupted.
C7_StopInterrupts ==
    \A t \in DOMAIN pc :
        (pc[t] = "mv_release" /\ mv[t].stopped)
            => mv[t].outcome = "Interrupted"

\* C8 (as amended): the open-loop command of a joint is target - current,
\* plus backlash * direction exactly when the direction differs from the
\* stored last direction of the joint (a reversal, or no direction stored).
C8_BacklashOnDirectionChange ==
    \A t \in DOMAIN pc :
        pc[t] \in {"mv_open", "mv_cmd"} =>
            LET m == mv[t]
                j == m.req.items[m.idx].j
                delta == m.targets[m.idx] - m.start[m.idx]
            IN m.run[m.idx] =
                 delta + (IF Sign(delta) /= last_dir[j]
                          THEN backlash[j] * Sign(delta) ELSE 0)

\* A reversal is being commanded with its backlash offset.
C8_Reversal ==
    \E t \in DOMAIN pc :
        /\ pc[t] = "mv_cmd"
        /\ LET m == mv[t]
               j == m.req.items[m.idx].j
           IN /\ last_dir[j] = -m.dir
              /\ backlash[j] > 0
              /\ m.run[m.idx] =
                    m.targets[m.idx] - m.start[m.idx] + backlash[j] * m.dir

\* C8 (as stated): the offset is added exactly when the joint's previous
\* move went in the opposite direction.
C8_OnlyOnReversal ==
    \A t \in DOMAIN pc :
        pc[t] \in {"mv_open", "mv_cmd"} =>
            LET m == mv[t]
                j == m.req.items[m.idx].j
                delta == m.targets[m.idx] - m.start[m.idx]
            IN m.run[m.idx] =
                 delta + (IF m.base_dir[m.idx] = -Sign(delta)
                          THEN backlash[j] * Sign(delta) ELSE 0)

\* C9 (as amended): two joints of one request that start from the same
\* state with the same requested value, of which the open-loop commands got
\* different backlash offsets, have the same target and the same converted
\* degrees; and the final error of every joint is its target minus the
\* position the motor reports.
C9_TargetUnaffected ==
    \A t \in DOMAIN pc :
        (pc[t] = "mv_release" /\ mv[t].outcome = "ok") =>
            LET m == mv[t]
                n == Len(m.req.items)
                jt(i) == m.req.items[i].j
                conv(i) == m.targets[i] - m.start[i]
                twins(i, k) ==
                    /\ m.req.items[i].raw = m.req.items[k].raw
                    /\ m.start[i] = m.start[k]
                    /\ m.pstart[i] = m.pstart[k]
                    /\ limits[jt(i)] = limits[jt(k)]
                    /\ rotation_deg[jt(i)] = rotation_deg[jt(k)]
                    /\ m.run[i] - conv(i) /= m.run[k] - conv(k)
            IN /\ \A i, k \in 1..n :
                    twins(i, k) => /\ m.targets[i] = m.targets[k]
                                   /\ conv(i) = conv(k)
               /\ \A i \in 1..n :
                    m.reads_ok => m.ferr[i] = m.targets[i] - pos[jt(i)]

\* A move of two such joints, one with and one without the offset, returns.
C9_Twins ==
    \E t \in DOMAIN pc :
        /\ pc[t] = "mv_release" /\ mv[t].outcome = "ok" /\ mv[t].reads_ok
        /\ Len(mv[t].req.items) = 2
        /\ mv[t].req.items[1].raw = mv[t].req.items[2].raw
        /\ mv[t].start[1] = mv[t].start[2]
        /\ mv[t].pstart[1] = mv[t].pstart[2]
        /\ mv[t].run[1] = mv[t].targets[1] - mv[t].start[1]
        /\ mv[t].run[2] /= mv[t].targets[2] - mv[t].start[2]

\* C9 (as stated): with a driver that travels every command exactly, two
\* such joints also report the same final error.
C9_SameFinalError ==
    \A t \in DOMAIN pc :
        (pc[t] = "mv_release" /\ mv[t].outcome = "ok" /\ faults = 0) =>
            LET m == mv[t]
                n == Len(m.req.items)
                jt(i) == m.req.items[i].j
                conv(i) == m.targets[i] - m.start[i]
            IN \A i, k \in 1..n :
                (/\ m.req.items[i].raw = m.req.items[k].raw
                 /\ m.start[i] = m.start[k]
                 /\ m.pstart[i] = m.pstart[k]
                 /\ limits[jt(i)] = limits[jt(k)]
                 /\ rotation_deg[jt(i)] = rotation_deg[jt(k)])
                => /\ m.targets[i] = m.targets[k]
                   /\ conv(i) = conv(k)
                   /\ m.ferr[i] = m.ferr[k]

\* C10 (as amended): after a successful move with finalize, every joint of
\* the request is within the deadband of its (clamped) target, provided the
\* position reads answered and every corrective command was travelled to
\* within the deadband; the open-loop commands may travel any distance.
C10_WithinDeadband ==
    \A t \in DOMAIN pc :
        (/\ pc[t] = "mv_release" /\ mv[t].outcome = "ok"
         /\ mv[t].req.finalize /\ mv[t].reads_ok
         /\ mv[t].corr_slip <= mv[t].req.deadband)
        => \A i \in 1..Len(mv[t].req.items) :
              Abs(current_abs[mv[t].req.items[i].j] - mv[t].targets[i])
                <= mv[t].req.deadband

\* An absolute move to a target inside the soft limits, whose open-loop
\* command fell short by more than the deadband, returns after a correction.
C10_Corrected ==
    \E t \in DOMAIN pc :
        /\ pc[t] = "mv_release" /\ mv[t].outcome = "ok"
        /\ mv[t].req.mode = "absolute" /\ mv[t].req.finalize /\ mv[t].reads_ok
        /\ mv[t].corr_slip <= mv[t].req.deadband
        /\ \E i \in 1..Len(mv[t].req.items) :
              /\ limits[mv[t].req.items[i].j] /= <<>>
              /\ mv[t].corr[i] /= 0
              /\ pos[mv[t].req.items[i].j] /= mv[t].targets[i]

\* C10 (as stated): the same, whatever distance the driver travels for the
\* corrective command.
C10_AnyTravel ==
    \A t \in DOMAIN pc :
        (/\ pc[t] = "mv_release" /\ mv[t].outcome = "ok"
         /\ mv[t].req.finalize /\ mv[t].reads_ok)
        => \A i \in 1..Len(mv[t].req.items) :
              Abs(current_abs[mv[t].req.items[i].j] - mv[t].targets[i])
                <= mv[t].req.deadband


\* C11: with finalize on, a corrective command is issued for a joint only
\* when the error measured after the open-loop phase exceeds the deadband,
\* whenever it does, and never more than once for a joint in one move; when
\* that one correction travels exactly and the position can be read, the
\* final error of the joint is within the deadband.
C11_SingleCorrection ==
    \A t \in DOMAIN pc :
        (pc[t] \in {"mv_final", "mv_corr", "mv_release"}
         /\ mv[t].targets /= <<>>) =>
            LET m == mv[t]
            IN \A i \in 1..Len(m.targets) :
                /\ m.ncorr[i] <= 1
                /\ m.ncorr[i] = 1 =>
                        /\ m.req.finalize
                        /\ Abs(m.corr[i]) > m.req.deadband
                /\ (m.ncorr[i] = 0 /\ (i < m.idx \/ m.outcome = "ok")) =>
                        (~m.req.finalize \/ Abs(m.ferr[i]) <= m.req.deadband)
                /\ (m.ncorr[i] = 1 /\ m.outcome = "ok" /\ m.corr_slip = 0
                    /\ m.reads_ok) =>
                        Abs(m.ferr[i]) <= m.req.deadband

\* C11 witness: the open-loop command of 30 degrees undershot by a tenth,
\* the one correction of 3 degrees travelled exactly and the move succeeded
\* with no error left.
C11_Undershoot ==
    \E t \in DOMAIN pc :
        /\ pc[t] = "mv_release"
        /\ mv[t].outcome = "ok"
        /\ mv[t].req = DefaultReq("relative", A1(Num(30)))
        /\ mv[t].run = <<30>>
        /\ mv[t].pstart = mv[t].start
        /\ mv[t].corr = <<3>>
        /\ mv[t].ncorr = <<1>>
        /\ mv[t].corr_slip = 0
        /\ mv[t].reads_ok
        /\ mv[t].ferr = <<0>>
        /\ faults = 1

\* C12: whenever a joint has soft limits [lo, hi], the target of every move
\* of that joint (absolute or relative, degrees or rotations, a number or a
\* point expression) lies in [lo, hi], and the command sent to the motor is
\* computed from that clamped target (it differs from target - start by the
\* backlash offset at most); after finalize_calibration with A.open = 20 and
\* A.closed = -10 the limit of A is (-10, 20) and an absolute move of A to 50
\* has target 20.
C12_TargetClamped ==
    /\ calibrated =>
            limits["A"] = <<Min2(points["A"]["open"], points["A"]["closed"]),
                            Max2(points["A"]["open"], points["A"]["closed"])>>
    /\ \A t \in DOMAIN pc :
        (pc[t] \in ActuationPcs \cup {"mv_release"}
         /\ mv[t].targets /= <<>>) =>
            LET m == mv[t]
            IN \A i \in 1..Len(m.targets) :
                LET j == m.req.items[i].j
                IN /\ limits[j] /= <<>> =>
                        /\ limits[j][1] <= m.targets[i]
                        /\ m.targets[i] <= limits[j][2]
                   /\ m.sent[i] =>
                        Abs(m.run[i] - (m.targets[i] - m.start[i]))
                            <= backlash[j]
                   /\ (m.req = DefaultReq("absolute", A1(Num(50)))
                       /\ limits["A"] = <<-10, 20>>) => m.targets[i] = 20

\* C12 witness: calibrated with A.open = 20 and A.closed = -10, a move of A
\* to 50 is travelling towards 20.
C12_ClampedToOpen ==
    \E t \in DOMAIN pc :
        /\ pc[t] = "mv_cmd"
        /\ calibrated
        /\ points["A"]["open"] = 20 /\ points["A"]["closed"] = -10
        /\ limits["A"] = <<-10, 20>>
        /\ mv[t].req = DefaultReq("absolute", A1(Num(50)))
        /\ mv[t].targets = <<20>>

\* C13: when finalize_calibration is about to raise, for missing points or
\* for a failure of its move to the derived home (Interrupted, Timeout,
\* BUSY), calibrated, the soft limits and the named points are what they
\* were when it was called; so calibrated is true only by a call that
\* returned successfully.
C13_FailedFinalizeUnchanged ==
    \A t \in DOMAIN pc :
        (Resumes(t, "finalize_calibration") /\ ret[t] /= "ok") =>
            LET a == Top(t).arg
            IN /\ calibrated = a.calibrated
               /\ limits = a.limits
               /\ points = a.points

C15_PointsWithinLimits ==
    \A t \in DOMAIN pc :
        (Resumes(t, "finalize_calibration") /\ ret[t] = "ok") =>
            LET a == Top(t).arg
            IN \A j \in Joints : \A n \in DOMAIN a.points[j] :
                /\ limits[j][1] <= a.points[j][n]
                /\ a.points[j][n] <= limits[j][2]

\* C16: once reset_calibration has run its assignments, from whatever
\* calibration state it was called in, no joint has a named point or a soft
\* limit and calibrated is false.
C16_ResetClears ==
    \A t \in DOMAIN pc :
        pc[t] = "rs_status" =>
            /\ \A j \in Joints : DOMAIN points[j] = {} /\ limits[j] = <<>>
            /\ ~calibrated

\* C16 witness: reset_calibration was called on a calibrated arm with soft
\* limits and recorded points.
C16_ResetFromCalibrated ==
    \E t \in DOMAIN pc :
        /\ pc[t] = "rs_status"
        /\ Top(t).op = "reset_calibration"
        /\ Top(t).arg.calibrated
        /\ Top(t).arg.limits["A"] = <<-10, 20>>
        /\ DOMAIN Top(t).arg.points["B"] = {"min", "pick", "max"}
        /\ ~calibrated

\* C17: recover_to_home stops the motors, reads the position of every joint
\* into current_abs and then starts an absolute move to the calibrated home
\* (A open, B min, C max, D neutral) or to all zeros when uncalibrated; it
\* does all this only as the owner of the busy-lock, and a call made while
\* another context holds the busy-lock gets no further than its busy test:
\* it fails with BUSY, having stopped nothing.
C17_RecoverToHome ==
    \A t \in DOMAIN pc :
        (stack[t] /= <<>> /\ stack[t][1].op = "recover_to_home") =>
            /\ stack[t][1].arg.contended => pc[t] = "rc_acquire"
            /\ pc[t] /= "rc_acquire" => busy_owner = t
            /\ pc[t] \in {"rc_coast", "rc_sync"} => stop_event
            /\ pc[t] = "mv_acquire" =>
                /\ current_abs = pos
                /\ mv[t].req.mode = "absolute"
                /\ mv[t].req.items =
                    IF calibrated THEN CalibratedHome
                    ELSE [i \in 1..4 |-> Item(JointSeq[i], Num(0))]

\* C19: after a move call that failed with Timeout, the retained last move
\* summary reports timeout = true and describes that move: its items are
\* the joints the timed-out request named.
C19_TimeoutSummary ==
    \A t \in DOMAIN pc :
        (pc[t] = "idle" /\ ret[t] = "Timeout") =>
            /\ last_move_summary.timeout
            /\ last_move_summary.items = A1(Num(13000))

\* C20: the target of a numeric move is computed from the value times the
\* rotation unit of the joint when the units are rotations and from the
\* value itself when they are degrees (never scaled), added to current_abs
\* for a relative move, and clamped to the soft limits; so N rotations and
\* N * rotationUnitDegrees degrees give the same target.  When the driver
\* travels exactly, positions were in sync and no backlash offset was
\* added, current_abs ends on that target.
C20_RotationsConverted ==
    \A t \in DOMAIN pc :
        (pc[t] \in ActuationPcs \cup {"mv_release"}
         /\ mv[t].targets /= <<>>) =>
            LET m == mv[t]
            IN \A i \in 1..Len(m.targets) :
                LET it == m.req.items[i]
                    scale == IF m.req.units = "rotations"
                             THEN rotation_deg[it.j] ELSE 1
                    base == IF m.req.mode = "relative" THEN m.start[i] ELSE 0
                    want == base + it.raw.val * scale
                    lim == limits[it.j]
                    clamped == IF lim = <<>> THEN want
                               ELSE IF want < lim[1] THEN lim[1]
                               ELSE IF want > lim[2] THEN lim[2] ELSE want
                IN it.raw.kind = "num" =>
                    /\ m.targets[i] = clamped
                    /\ (pc[t] = "mv_release" /\ m.outcome = "ok"
                        /\ faults = 0 /\ m.pstart[i] = m.start[i]
                        /\ m.run[i] = m.targets[i] - m.start[i]) =>
                            current_abs[it.j] = clamped

\* C20 witness: one rotation of joint A, whose rotation unit is 365 degrees,
\* has moved the target and current_abs by 365.
C20_OneRotation ==
    \E t \in DOMAIN pc :
        /\ pc[t] = "mv_release"
        /\ mv[t].outcome = "ok"
        /\ mv[t].req = Req("relative", "rotations", A1(Num(1)), TRUE, 1, FALSE)
        /\ rotation_deg["A"] = 365
        /\ limits["A"] = <<>>
        /\ mv[t].targets[1] = mv[t].start[1] + 365
        /\ current_abs["A"] = mv[t].start[1] + 365

\* C20 as stated: a successful relative move of N rotations changes the
\* target and current_abs by exactly N * rotationUnitDegrees.
C20_ExactlyNRotations ==
    \A t \in DOMAIN pc :
        (pc[t] = "mv_release" /\ mv[t].outcome = "ok"
         /\ mv[t].req.units = "rotations"
         /\ mv[t].req.mode = "relative") =>
            LET m == mv[t]
                j == m.req.items[1].j
                by == m.req.items[1].raw.val * rotation_deg[j]
            IN /\ m.targets[1] = m.start[1] + by
               /\ current_abs[j] = m.start[1] + by

\* C18: the operations of the queue are executed one at a time in
\* submission order: at most one operation is running and it is the one the
\* worker holds, an operation is taken only when every operation submitted
\* before it has reached a terminal status, the status of an operation only
\* changes from queued to running and from running to succeeded or failed,
\* and an operation is never removed.
C18_OneAtATimeInOrder ==
    /\ [](/\ \A i, k \in 1..Len(ops) :
                (ops[i].status = "running" /\ ops[k].status = "running")
                    => i = k /\ wk_op = i
          /\ \A i, k \in 1..Len(ops) :
                (i < k /\ ops[k].status /= "queued")
                    => ops[i].status \in {"succeeded", "failed"})
    /\ [][/\ Len(ops') >= Len(ops)
          /\ \A i \in 1..Len(ops) :
                \/ ops'[i] = ops[i]
                \/ /\ ops'[i].kind = ops[i].kind
                   /\ ops'[i].req = ops[i].req
                   /\ <<ops[i].status, ops'[i].status>> \in
                        {<<"queued", "running">>, <<"running", "succeeded">>,
                         <<"running", "failed">>}]_vars

\* C18 witness: of three operations submitted, the first succeeded, the
\* second failed and the third is running.
C18_ThirdRunning ==
    /\ Len(ops) = 3
    /\ ops[1].status = "succeeded"
    /\ ops[2].status = "failed"
    /\ ops[3].status = "running"
    /\ wk_op = 3
    /\ pc[Worker] \in ActuationPcs

\* C21: run_workflow resolves every symbolic pose of every step before the
\* first motor command.  The numeric targets of a running workflow are the
\* values the named points had when it was called, also after points were
\* recorded again, and they are what its joint moves are given; a call whose
\* step list names an unknown point fails with ValueError in the call
\* itself: no frame, no move, and the controller state is unchanged.
C21_ResolvedUpFront ==
    /\ [](\A t \in DOMAIN pc : \A n \in 1..Len(stack[t]) :
            stack[t][n].op = "workflow" =>
                LET f == stack[t][n]
                    At(p, j) ==
                        LET e == f.arg.src[p][j]
                        IN IF e.kind = "pt"
                           THEN f.arg.pts[j][Normalize(e.name)] + e.off
                           ELSE e.val
                    jk == JointOrder[f.arg.k]
                IN /\ \A p \in 1..Len(f.steps) : \A j \in DOMAIN f.arg.src[p] :
                        StepTarget(f, p, j) = At(p, j)
                   /\ (pc[t] \in MovePcs /\ ~f.arg.nudge) =>
                        mv[t].req.items = <<Item(jk, Num(At(f.i, jk)))>>)
    /\ [][\A t \in DOMAIN pc :
            (/\ pc[t] = "idle" /\ pc'[t] = "idle"
             /\ calls' = calls + 1
             /\ ret'[t] = "ValueError"
             /\ points' = points)
                => /\ ctrlVars' = ctrlVars
                   /\ stack'[t] = <<>>
                   /\ mv'[t] = mv[t]
                   /\ busy_owner' = busy_owner]_vars

\* C21 witness: the third pose of the gripper cycle moves A to the value
\* "open" had at the call, after "open" was recorded again at another value.
C21_RerecordedWhileRunning ==
    /\ stack[Worker] /= <<>>
    /\ Top(Worker).op = "workflow"
    /\ Top(Worker).arg.src = GripSteps
    /\ Top(Worker).i = 3
    /\ pc[Worker] \in ActuationPcs
    /\ points["A"]["open"] /= Top(Worker).arg.pts["A"]["open"]
    /\ mv[Worker].req.items = <<Item("A", Num(Top(Worker).arg.pts["A"]["open"]))>>

\* C22: in a workflow run the previous pose is verified (and nudged back to
\* when it drifted) before the joints of every pose but the first are moved:
\* once a joint of a later pose has been handed to _move_joint, the drift
\* check of that pose has been made.
C22_PreviousPoseVerified ==
    \A t \in DOMAIN pc : \A n \in 1..Len(stack[t]) :
        (/\ stack[t][n].op = "workflow"
         /\ stack[t][n].i > 1
         /\ stack[t][n].i <= Len(stack[t][n].steps)
         /\ stack[t][n].arg.done /= {})
            => stack[t][n].arg.drift_done

\* C23: when, at the start of a pose, a joint has drifted from the previous
\* pose by the catastrophic threshold or more, the next thing the workflow
\* does is invoke recover_to_home, and it issues no nudge.
C23_CatastrophicRecovers ==
    [][\A t \in DOMAIN pc :
        (/\ pc[t] = "wf_next"
         /\ stack[t] /= <<>>
         /\ Top(t).op = "workflow"
         /\ Top(t).i > 1
         /\ Top(t).i <= Len(Top(t).steps)
         /\ Top(t).arg.done = {}
         /\ Top(t).arg.pass = 1
         /\ ~Top(t).arg.drift_done
         /\ \E j \in DOMAIN Top(t).steps[Top(t).i - 1] :
                Abs(current_abs[j] - Top(t).steps[Top(t).i - 1][j])
                    >= CatastrophicDrift
         /\ stack'[t] /= stack[t])
            => /\ Len(stack'[t]) = Len(stack[t]) + 1
               /\ stack'[t][Len(stack'[t])].op = "recover_to_home"
               /\ ~stack'[t][1].arg.nudge]_vars

\* C24: in run_workflow the joints of a pose handed to _move_joint are, in
\* the first and in the last pose, all the joints the pose lists, and in a
\* pose between them the listed joints whose target differs from their value
\* in the previous pose (or that the previous pose does not list): no other
\* joint is handed over, none of these is passed by, and when the workflow
\* goes on to the next pose exactly these have been handed over.
C24_SkipUnchangedButEdges ==
    /\ [](\A t \in DOMAIN pc : \A n \in 1..Len(stack[t]) :
            (stack[t][n].op = "workflow"
             /\ stack[t][n].i <= Len(stack[t][n].steps)) =>
                LET f == stack[t][n]
                    Expected ==
                        {j \in DOMAIN f.steps[f.i] :
                            \/ f.i = 1
                            \/ f.i = Len(f.steps)
                            \/ j \notin DOMAIN f.steps[f.i - 1]
                            \/ f.steps[f.i - 1][j] /= f.steps[f.i][j]}
                IN /\ f.arg.done \subseteq Expected
                   /\ \A i \in 1..4 :
                        (i < f.arg.k /\ JointOrder[i] \in Expected)
                            => JointOrder[i] \in f.arg.done)
    /\ [][\A t \in DOMAIN pc :
            (/\ stack[t] /= <<>> /\ stack'[t] /= <<>>
             /\ stack[t][1].op = "workflow"
             /\ stack'[t][1].op = "workflow"
             /\ stack'[t][1].i = stack[t][1].i + 1)
                => LET f == stack[t][1]
                   IN f.arg.done =
                        {j \in DOMAIN f.steps[f.i] :
                            \/ f.i = 1
                            \/ f.i = Len(f.steps)
                            \/ j \notin DOMAIN f.steps[f.i - 1]
                            \/ f.steps[f.i - 1][j] /= f.steps[f.i][j]}]_vars

\* C24 witness: in the last pose of the descent every joint has been handed
\* to _move_joint, D, C and B with the targets they had in the pose before,
\* after the middle pose in which only C was.
C24_LastPoseInFull ==
    /\ stack[Worker] /= <<>>
    /\ Top(Worker).op = "workflow"
    /\ Top(Worker).arg.src = DescendSteps
    /\ Top(Worker).i = Len(DescendSteps)
    /\ Top(Worker).steps[Top(Worker).i - 1]["D"] = Top(Worker).steps[Top(Worker).i]["D"]
    /\ Top(Worker).arg.done = {"D", "C", "B", "A"}

\* C25: joint moves are made one after the other in the given order.  In a
\* move call the items are commanded in the order of the request: while the
\* open-loop loop is at item idx no later item has been commanded and every
\* earlier item that had to move has been.  In a workflow the joints of a
\* pose are handed to _move_joint in the order D, C, B, A, the move in
\* flight is the move of the joint handed over last, and the workflow goes
\* from a pose to the next one only between joints, never back.
C25_JointsInOrder ==
    /\ [](\A t \in DOMAIN pc :
            /\ pc[t] \in {"mv_open", "mv_cmd"} =>
                \A i \in 1..Len(mv[t].req.items) :
                    /\ mv[t].sent[i] => i <= mv[t].idx
                    /\ (i < mv[t].idx /\ mv[t].targets[i] /= mv[t].start[i])
                            => mv[t].sent[i]
            /\ (stack[t] /= <<>> /\ stack[t][1].op = "workflow"
                /\ pc[t] \in MovePcs /\ ~stack[t][1].arg.nudge) =>
                LET f == stack[t][1]
                    Rank(j) == CASE j = "D" -> 1 [] j = "C" -> 2
                                 [] j = "B" -> 3 [] OTHER -> 4
                IN /\ Len(mv[t].req.items) = 1
                   /\ mv[t].req.items[1].j \in f.arg.done
                   /\ \A j \in f.arg.done :
                        Rank(j) <= Rank(mv[t].req.items[1].j))
    /\ [][\A t \in DOMAIN pc :
            (/\ stack[t] /= <<>> /\ stack'[t] /= <<>>
             /\ stack[t][1].op = "workflow"
             /\ stack'[t][1].op = "workflow") =>
                LET f == stack[t][1]
                    g == stack'[t][1]
                    Rank(j) == CASE j = "D" -> 1 [] j = "C" -> 2
                                 [] j = "B" -> 3 [] OTHER -> 4
                IN IF g.i = f.i
                   THEN /\ f.arg.done \subseteq g.arg.done
                        /\ \A new \in g.arg.done \ f.arg.done :
                            \A old \in f.arg.done : Rank(old) < Rank(new)
                   ELSE /\ g.i = f.i + 1
                        /\ g.arg.done = {}
                        /\ pc[t] = "wf_next"
                        /\ pc'[t] = "wf_next"]_vars

\* C25 witness: in the last pose of the process, after D and C were handed
\* to _move_joint, the move of B to its pick point is being commanded.
C25_ThirdJointMoving ==
    /\ stack[Worker] /= <<>>
    /\ Top(Worker).op = "workflow"
    /\ Top(Worker).i = Len(Top(Worker).steps)
    /\ Top(Worker).arg.done = {"D", "C", "B"}
    /\ pc[Worker] = "mv_cmd"
    /\ mv[Worker].req.items = <<Item("B", Num(points["B"]["pick"]))>>

C28_SmallResidualAccepted ==
    [][\A t \in DOMAIN pc :
        (/\ pc[t] = "wf_settle"
         /\ pc'[t] /= "wf_settle"
         /\ ~Top(t).arg.nudge
         /\ Abs(current_abs[JointOrder[Top(t).arg.k]]
                - Top(t).steps[Top(t).i][JointOrder[Top(t).arg.k]]) <= 3) =>
            /\ pc'[t] = "wf_next"
            /\ ret'[t] = ret[t]
            /\ stack'[t] /= <<>>]_vars

\* C29: a settle check of _move_joint that fails with a residual above the
\* tolerance and of at most 10 degrees is followed, after the first move, by
\* one retry at SPEED_DEFAULT_FINAL and, after that retry, by the acceptance
\* of the joint: no third move and no error, the workflow goes on.
C29_MediumRetriedOnceThenAccepted ==
    [][\A t \in DOMAIN pc :
        /\ (/\ pc[t] = "wf_settle"
            /\ pc'[t] /= "wf_settle"
            /\ ~Top(t).arg.nudge
            /\ Abs(current_abs[JointOrder[Top(t).arg.k]]
                   - Top(t).steps[Top(t).i][JointOrder[Top(t).arg.k]]) > 3
            /\ Abs(current_abs[JointOrder[Top(t).arg.k]]
                   - Top(t).steps[Top(t).i][JointOrder[Top(t).arg.k]]) <= 10) =>
               IF Top(t).arg.attempt = 1
               THEN /\ pc'[t] = "wf_issue"
                    /\ stack'[t][1].arg.attempt = 2
               ELSE /\ pc'[t] = "wf_next"
                    /\ ret'[t] = ret[t]
                    /\ stack'[t] /= <<>>
        /\ (/\ pc[t] = "wf_issue"
            /\ pc'[t] /= "wf_issue"
            /\ ~Top(t).arg.nudge
            /\ Top(t).arg.attempt = 2) =>
               stack'[t][1].arg.speed = 35]_vars

\* C30: _move_joint never makes a fourth attempt, and every attempt after
\* the first is issued at SPEED_DEFAULT_FINAL; a settle check that ends with
\* a residual above 10 degrees is followed by another attempt after the
\* first and after the second move, and after the third by no further move
\* but the fatal settle failure (for a joint not flagged to tolerate it).
C30_ThreeAttemptsThenFatal ==
    /\ [](\A t \in DOMAIN pc : \A n \in 1..Len(stack[t]) :
            stack[t][n].op = "workflow" =>
                /\ stack[t][n].arg.attempt \in 0..3
                /\ Len(stack[t][n].arg.errs) <= 2)
    /\ [][\A t \in DOMAIN pc :
            /\ (/\ pc[t] = "wf_settle"
                /\ pc'[t] /= "wf_settle"
                /\ ~Top(t).arg.nudge
                /\ Abs(current_abs[JointOrder[Top(t).arg.k]]
                       - Top(t).steps[Top(t).i][JointOrder[Top(t).arg.k]]) > 10) =>
                   IF Top(t).arg.attempt < 3
                   THEN /\ pc'[t] = "wf_issue"
                        /\ stack'[t][1].arg.attempt = Top(t).arg.attempt + 1
                        /\ stack'[t][1].arg.issued = Top(t).arg.issued
                   ELSE /\ pc'[t] /= "wf_issue"
                        /\ JointOrder[Top(t).arg.k] \notin Top(t).arg.ignore =>
                               /\ ret'[t] = "SettleFailure"
                               /\ stack'[t] = <<>>
                               /\ pc'[t] = "idle"
            /\ (/\ pc[t] = "wf_issue"
                /\ pc'[t] /= "wf_issue"
                /\ ~Top(t).arg.nudge) =>
                   /\ stack'[t][1].arg.issued = Top(t).arg.issued + 1
                   /\ stack'[t][1].arg.speed =
                        IF Top(t).arg.attempt = 1 THEN 100 ELSE 35]_vars

\* C30 witness: the workflow has raised the settle failure after three
\* moves of C towards a point 15 degrees beyond its limit, the last thing
\* the arm did, with nothing else using the arm.
C30_FatalAfterThird ==
    /\ ret[Worker] = "SettleFailure"
    /\ pc[Worker] = "idle"
    /\ calls = 1
    /\ last_move_summary.items = <<Item("C", Num(45))>>
    /\ current_abs["C"] = 30

\* C31: after a failed settle check with unhealthy telemetry _move_joint
\* grants the telemetry retry if it has not been used in this call, and the
\* telemetry retry does not count against the retry ladder: every other
\* failed check is answered as the ladder answers the number of the attempt
\* without the telemetry retry.
C31_TelemetryRetryIsExtra ==
    [][\A t \in DOMAIN pc :
        (/\ pc[t] = "mj_class"
         /\ ~Top(t).arg.settle_ok) =>
            IF (Top(t).arg.err = NaN \/ ~Top(t).arg.healthy)
               /\ ~Top(t).arg.tele_used
            THEN /\ pc'[t] = "mj_issue"
                 /\ stack'[t][1].arg.tele_used
            ELSE (pc'[t] = "mj_issue") <=>
                 (Ladder(IF Top(t).arg.err = NaN THEN MediumErr + 1
                         ELSE Top(t).arg.err,
                         Top(t).arg.attempt
                           - (IF Top(t).arg.tele_used THEN 1 ELSE 0))
                  = "retry")]_vars

\* C32: _verify_stable returns True only when the last STABLE_OK_POLLS reads
\* at least were in tolerance with no out-of-tolerance read between them
\* (its count is the length of that run, back at zero after an
\* out-of-tolerance read), returns False only when the timeout has elapsed,
\* and does not go on polling after the timeout.
C32_SettledAfterConsecutiveReads ==
    \A t \in DOMAIN pc :
        /\ pc[t] = "mj_class" =>
              IF Top(t).arg.settle_ok
              THEN /\ Top(t).arg.run >= StableOkPolls
                   /\ Top(t).arg.reads >= Top(t).arg.run
                   /\ InTol(Top(t).arg.err)
              ELSE Top(t).arg.now >= SettleTimeoutBase
        /\ pc[t] = "vs_loop" =>
              /\ Top(t).arg.stable = Top(t).arg.run
              /\ Top(t).arg.now < SettleTimeoutBase + PollInterval + MaxJitter

\* C32 witness: the joint is reported settled after a read out of tolerance
\* was followed by STABLE_OK_POLLS reads in tolerance.
C32_SettledAfterFlicker ==
    /\ pc[Worker] = "mj_class"
    /\ Top(Worker).arg.settle_ok
    /\ Top(Worker).arg.run = StableOkPolls
    /\ Top(Worker).arg.reads > StableOkPolls + 1

\* C33: whenever the joint state or the calibration state changes
\* (current_abs, last_dir, points, limits, calibrated, backlash) some
\* context holds the busy-lock, and no other context than the holder has
\* taken the step that changed it.
C33_MutationUnderBusyLock ==
    [][(<<current_abs, last_dir, points, limits, calibrated, backlash>>
            /= <<current_abs', last_dir', points', limits', calibrated',
                 backlash'>>) =>
            /\ busy_owner /= NoCtx
            /\ \A t \in DOMAIN pc \ {busy_owner} :
                    /\ pc'[t] = pc[t]
                    /\ ret'[t] = ret[t]
                    /\ stack'[t] = stack[t]]_vars

\* C34: a call of reset_calibration that has cleared the calibration returns
\* in the end, and the internal lock is free then.
C34_ResetReturns ==
    (pc[Caller] = "rs_status") ~> (pc[Caller] = "idle" /\ lock = NoCtx)

\* C35: a move that was stopped in flight (stop_all was called after it had
\* issued a motor command and before it left its actuation section) issues
\* no further motor command: no open-loop command and no finalize
\* correction.
C35_NoCommandAfterStop ==
    [][\A t \in DOMAIN pc :
        mv[t].stopped =>
            /\ ~(pc[t] = "mv_open" /\ pc'[t] = "mv_cmd")
            /\ ~(pc[t] = "mv_final" /\ pc'[t] = "mv_corr")]_vars

\* C36: the first move ever called, called when the stop flag was already
\* set (stop_all ran while no move was in flight), does not end with
\* Interrupted.
C36_StaleStopIgnored ==
    \A t \in DOMAIN pc :
        (pc[t] = "mv_release" /\ calls = 1 /\ mv[t].stale)
            => mv[t].outcome /= "Interrupted"

\* C37: when a move ends, whatever its outcome, the stored last direction
\* of every joint it has sent a command to is the sign of the last command
\* it sent to that joint (the finalize correction if there was one, else
\* the open-loop command), and the stored last direction of a joint changes
\* only when a move has sent a command to that joint.
C37_LastDirectionOfLastCommand ==
    /\ [](\A t \in DOMAIN pc :
            pc[t] = "mv_release" =>
                \A i \in 1..Len(mv[t].sent) :
                    /\ mv[t].corr[i] /= 0 =>
                            last_dir[mv[t].req.items[i].j]
                                = Sign(mv[t].corr[i])
                    /\ (mv[t].corr[i] = 0 /\ mv[t].sent[i]) =>
                            last_dir[mv[t].req.items[i].j]
                                = Sign(mv[t].targets[i] - mv[t].start[i]))
    /\ [][\A j \in Joints :
            last_dir'[j] /= last_dir[j] =>
                \E t \in DOMAIN pc : \E i \in 1..Len(mv'[t].sent) :
                    /\ mv'[t].req.items[i].j = j
                    /\ mv'[t].sent[i]]_vars

\* C38: the depth of the busy-lock is never negative, the lock has no owner
\* exactly when the depth is zero, and a context with no call in progress
\* does not own it; whenever a routine of a context returns or raises, that
\* context holds the lock as often as the routines that called it do, which
\* is as often as it held it when the routine was entered.
C38_BusyLockBalanced ==
    /\ [](/\ busy_count >= 0
          /\ (busy_owner = NoCtx) <=> (busy_count = 0)
          /\ \A t \in DOMAIN pc :
                (pc[t] = "idle" /\ stack[t] = <<>>) => busy_owner /= t)
    /\ [][\A t \in DOMAIN pc :
            (Len(stack'[t]) + (IF pc'[t] \in MovePcs THEN 1 ELSE 0)
                < Len(stack[t]) + (IF pc[t] \in MovePcs THEN 1 ELSE 0)) =>
                (IF busy_owner' = t THEN busy_count' ELSE 0)
                    = Cardinality({i \in 1..Len(stack'[t]) :
                                        stack'[t][i].op /= "workflow"})]_vars

\* C38 witness: the move nested in goto_pose nested in pickplace was
\* interrupted and has released; the two outer routines hold the lock still.
C38_RaisedInsideNested ==
    /\ pc[Worker] = "resume"
    /\ ret[Worker] = "Interrupted"
    /\ Len(stack[Worker]) = 2
    /\ stack[Worker][1].op = "pickplace"
    /\ busy_owner = Worker
    /\ busy_count = 2

C40_EveryOpTerminates ==
    /\ \A k \in 1..MaxOps :
            (Len(ops) >= k) ~>
                (Len(ops) >= k /\ ops[k].status \in {"succeeded", "failed"})
    /\ [][\A k \in 1..Len(ops) :
            /\ (ops[k].status = "running" /\ ops'[k].status /= "running") =>
                    /\ ops'[k].status =
                            IF ret[Worker] = "ok" THEN "succeeded" ELSE "failed"
                    /\ wk_op' = 0
            /\ ops[k].status \in {"succeeded", "failed"} =>
                    ops'[k].status = ops[k].status]_vars
====
